---- MODULE Spec2Model ----
(***************************************************************************)
(* The scientific calculator of calculator-built-with-go: the Calculator   *)
(* state (memory, lastResult, history), the Parser (variables, constants,  *)
(* preprocessing, tokenizer, shunting-yard, RPN evaluation) and the        *)
(* expression validator.                                                   *)
(*                                                                         *)
(* Text is a sequence of one-character strings.  A float64 is a record     *)
(* [k, n, d, t]:                                                           *)
(*   k = "q"     the exact rational n/d in lowest terms, d > 0             *)
(*   k = "dec"   a decimal literal with more digits than the exact range   *)
(*               holds: sign n, integer digits and fraction digits in t    *)
(*   k = "fact"  the finite float64 nearest n! for an n whose factorial    *)
(*               exceeds the exact range                                   *)
(*   k = "inf"   +Inf (n = 1) or -Inf (n = -1)                             *)
(*   k = "nan"   NaN                                                       *)
(*   k = "float" a finite float64 the exact range does not hold (an        *)
(*               irrational function value)                                *)
(***************************************************************************)
EXTENDS Integers, Sequences, FiniteSets, TLC

VARIABLES memory, lastResult, history, variables, ans, angleMode, out, mu, goroutines,
          config

vars == <<memory, lastResult, history, variables, ans, angleMode, out, mu, goroutines,
          config>>

-----------------------------------------------------------------------------
(* Text *)

Chars(s) == [i \in 1..Len(s) |-> SubSeq(s, i, i)]

DigitChars == <<"0", "1", "2", "3", "4", "5", "6", "7", "8", "9">>

Digits == {DigitChars[i] : i \in 1..10}

LowerLetters == {"a", "b", "c", "d", "e", "f", "g", "h", "i", "j", "k", "l", "m",
                 "n", "o", "p", "q", "r", "s", "t", "u", "v", "w", "x", "y", "z"}

UpperLetters == {"A", "B", "C", "D", "E", "F", "G", "H", "I", "J", "K", "L", "M",
                 "N", "O", "P", "Q", "R", "S", "T", "U", "V", "W", "X", "Y", "Z"}

LowerOf == [c \in UpperLetters |->
              CASE c = "A" -> "a" [] c = "B" -> "b" [] c = "C" -> "c" [] c = "D" -> "d"
                [] c = "E" -> "e" [] c = "F" -> "f" [] c = "G" -> "g" [] c = "H" -> "h"
                [] c = "I" -> "i" [] c = "J" -> "j" [] c = "K" -> "k" [] c = "L" -> "l"
                [] c = "M" -> "m" [] c = "N" -> "n" [] c = "O" -> "o" [] c = "P" -> "p"
                [] c = "Q" -> "q" [] c = "R" -> "r" [] c = "S" -> "s" [] c = "T" -> "t"
                [] c = "U" -> "u" [] c = "V" -> "v" [] c = "W" -> "w" [] c = "X" -> "x"
                [] c = "Y" -> "y" [] c = "Z" -> "z"]

\* strings.ToLower
ToLower(s) == [i \in 1..Len(s) |-> IF s[i] \in UpperLetters THEN LowerOf[s[i]] ELSE s[i]]

\* strings.ReplaceAll(s, " ", "")
RECURSIVE RemoveSpaces(_)
RemoveSpaces(s) ==
    IF s = <<>> THEN <<>>
    ELSE IF Head(s) = " " THEN RemoveSpaces(Tail(s))
    ELSE <<Head(s)>> \o RemoveSpaces(Tail(s))

\* strings.TrimSpace
RECURSIVE TrimLeft(_)
TrimLeft(s) == IF s # <<>> /\ Head(s) = " " THEN TrimLeft(Tail(s)) ELSE s

RECURSIVE TrimRight(_)
TrimRight(s) ==
    IF s # <<>> /\ s[Len(s)] = " " THEN TrimRight(SubSeq(s, 1, Len(s) - 1)) ELSE s

TrimSpace(s) == TrimRight(TrimLeft(s))

\* s[i..] starts with p
HasPrefixAt(s, i, p) ==
    /\ i + Len(p) - 1 <= Len(s)
    /\ \A j \in 1..Len(p) : s[i + j - 1] = p[j]

\* strings.Contains
Contains(s, p) == \E i \in 1..(Len(s) + 1) : HasPrefixAt(s, i, p)

\* strings.Count for a one-character pattern
CountChar(s, c) == Cardinality({i \in 1..Len(s) : s[i] = c})

\* strings.LastIndex for a one-character pattern, 1-based; 0 when absent
LastIndexChar(s, c) ==
    IF \E i \in 1..Len(s) : s[i] = c
    THEN CHOOSE i \in 1..Len(s) : s[i] = c /\ \A j \in (i + 1)..Len(s) : s[j] # c
    ELSE 0

-----------------------------------------------------------------------------
(* float64 values *)

IAbs(i) == IF i < 0 THEN -i ELSE i

RECURSIVE Gcd(_, _)
Gcd(a, b) == IF b = 0 THEN a ELSE Gcd(b, a % b)

RECURSIVE Pow10(_)
Pow10(k) == IF k = 0 THEN 1 ELSE 10 * Pow10(k - 1)

Q(n, d) ==
    LET Lowest(g, s) == [k |-> "q", n |-> (s * n) \div g, d |-> (s * d) \div g, t |-> <<>>]
    IN  Lowest(Gcd(IAbs(n), IAbs(d)), IF d < 0 THEN -1 ELSE 1)

I(n) == [k |-> "q", n |-> n, d |-> 1, t |-> <<>>]

PosInf == [k |-> "inf", n |-> 1, d |-> 0, t |-> <<>>]
NegInf == [k |-> "inf", n |-> -1, d |-> 0, t |-> <<>>]
NaN == [k |-> "nan", n |-> 0, d |-> 0, t |-> <<>>]
SomeFloat == [k |-> "float", n |-> 0, d |-> 0, t |-> <<>>]
BigFact(n) == [k |-> "fact", n |-> n, d |-> 1, t |-> <<>>]
\* a decimal literal kept by its digits: ip the integer digits, fr the fraction digits
Dec(sign, ip, fr) == [k |-> "dec", n |-> sign, d |-> Len(ip), t |-> ip \o fr]

IsQ(v) == v.k = "q"
IsInt(v) == v.k = "q" /\ v.d = 1
IsZero(v) == v.k = "q" /\ v.n = 0
IsFinite(v) == v.k \in {"q", "dec", "fact", "float"}

\* the sign of a value: -1, 0 or 1 (NaN: 0)
Sign(v) ==
    CASE v.k = "q" -> (IF v.n < 0 THEN -1 ELSE IF v.n = 0 THEN 0 ELSE 1)
      [] v.k = "dec" -> v.n
      [] v.k = "inf" -> v.n
      [] v.k = "fact" -> 1
      [] OTHER -> 0

Neg(v) ==
    CASE v.k = "q" -> Q(-v.n, v.d)
      [] v.k = "dec" -> [v EXCEPT !.n = -v.n]
      [] v.k = "inf" -> [v EXCEPT !.n = -v.n]
      [] OTHER -> v

\* a < b on exact rationals
QLess(a, b) == a.n * b.d < b.n * a.d

\* the integer part of n/d, rounded toward zero
TruncDiv(n, d) == IF n >= 0 THEN n \div d ELSE -((-n) \div d)

\* math.Trunc on an exact rational
Trunc(v) == I(TruncDiv(v.n, v.d))

\* a float64 comparison a < b; a comparison with NaN is false.  The order of
\* a "float" value is not held by the model and is left undefined.
Less(a, b) ==
    CASE a.k = "nan" \/ b.k = "nan" -> FALSE
      [] a.k = "q" /\ b.k = "q" -> QLess(a, b)
      [] a.k = "inf" /\ b.k = "inf" -> a.n < b.n
      [] a.k = "inf" /\ b.k \in {"q", "dec", "fact"} -> a.n < 0
      [] b.k = "inf" /\ a.k \in {"q", "dec", "fact"} -> b.n > 0
      [] a.k = "fact" /\ b.k \in {"q", "dec"} -> FALSE
      [] b.k = "fact" /\ a.k \in {"q", "dec"} -> TRUE
      [] a.k = "fact" /\ b.k = "fact" -> a.n < b.n
      [] a.k = "dec" /\ b.k = "q" /\ b.d = 1 /\ Len(a.t) - a.d > 0 /\ a.d <= 9 ->
            \* a decimal with a nonzero fraction against an integer
            LET ipv == IF a.d = 0 THEN 0
                       ELSE LET RECURSIVE val(_, _)
                                val(i, acc) == IF i > a.d THEN acc
                                               ELSE val(i + 1, acc * 10 +
                                                    ((CHOOSE j \in 1..10 : DigitChars[j] = a.t[i]) - 1))
                            IN val(1, 0)
            IN IF a.n >= 0 THEN ipv < b.n ELSE -ipv <= b.n
      [] b.k = "dec" /\ a.k = "q" /\ a.d = 1 /\ Len(b.t) - b.d > 0 /\ b.d <= 9 ->
            LET ipv == IF b.d = 0 THEN 0
                       ELSE LET RECURSIVE val(_, _)
                                val(i, acc) == IF i > b.d THEN acc
                                               ELSE val(i + 1, acc * 10 +
                                                    ((CHOOSE j \in 1..10 : DigitChars[j] = b.t[i]) - 1))
                            IN val(1, 0)
            IN IF b.n >= 0 THEN a.n <= ipv ELSE a.n < -ipv

Ok(v) == [ok |-> TRUE, val |-> v, err |-> ""]
Err(msg) == [ok |-> FALSE, val |-> I(0), err |-> msg]

-----------------------------------------------------------------------------
(* calculator/arithmetic.go *)

Add(a, b) ==
    CASE a.k = "q" /\ b.k = "q" -> Q(a.n * b.d + b.n * a.d, a.d * b.d)
      [] a.k = "nan" \/ b.k = "nan" -> NaN
      [] a.k = "inf" /\ b.k = "inf" -> IF a.n = b.n THEN a ELSE NaN
      [] a.k = "inf" -> a
      [] b.k = "inf" -> b
      [] IsZero(a) -> b
      [] IsZero(b) -> a
      [] OTHER -> SomeFloat

Subtract(a, b) == Add(a, Neg(b))

Multiply(a, b) ==
    CASE a.k = "q" /\ b.k = "q" -> Q(a.n * b.n, a.d * b.d)
      [] a.k = "nan" \/ b.k = "nan" -> NaN
      [] a.k = "inf" \/ b.k = "inf" ->
            IF Sign(a) * Sign(b) = 0 THEN NaN
            ELSE IF Sign(a) * Sign(b) > 0 THEN PosInf ELSE NegInf
      [] IsZero(a) \/ IsZero(b) -> I(0)
      [] a = I(1) -> b
      [] b = I(1) -> a
      [] OTHER -> SomeFloat

\* a / b for b # 0
Quotient(a, b) ==
    CASE a.k = "q" /\ b.k = "q" -> Q(a.n * b.d, a.d * b.n)
      [] a.k = "nan" \/ b.k = "nan" -> NaN
      [] a.k = "inf" /\ b.k = "inf" -> NaN
      [] a.k = "inf" -> IF Sign(a) * Sign(b) > 0 THEN PosInf ELSE NegInf
      [] b.k = "inf" -> I(0)
      [] IsZero(a) -> I(0)
      [] b = I(1) -> a
      [] OTHER -> SomeFloat

Divide(a, b) ==
    IF IsZero(b) THEN Err("division by zero") ELSE Ok(Quotient(a, b))

\* an exact rational to a non-negative integer power
RECURSIVE QPowNat(_, _)
QPowNat(b, e) == IF e = 0 THEN I(1) ELSE Multiply(b, QPowNat(b, e - 1))

\* the integer r >= 0 with r^k = n, or -1
RECURSIVE RootFrom(_, _, _)
RootFrom(r, k, n) ==
    IF QPowNat(I(r), k).n = n THEN r
    ELSE IF QPowNat(I(r), k).n > n THEN -1
    ELSE RootFrom(r + 1, k, n)

IntRoot(n, k) == RootFrom(0, k, n)

\* the k-th root of a rational v >= 0 when it is rational, else a float
QRoot(v, k) ==
    LET Roots(rn, rd) == IF rn >= 0 /\ rd >= 0 THEN Q(rn, rd) ELSE SomeFloat
    IN  Roots(IntRoot(v.n, k), IntRoot(v.d, k))

\* math.Pow
Pow(base, exponent) ==
    CASE IsZero(exponent) -> I(1)
      [] base = I(1) -> I(1)
      [] base.k = "nan" \/ exponent.k = "nan" -> NaN
      [] IsZero(base) -> IF Sign(exponent) < 0 THEN PosInf ELSE I(0)
      [] base.k = "q" /\ exponent.k = "q" /\ exponent.d = 1 ->
            IF exponent.n > 0 THEN QPowNat(base, exponent.n)
            ELSE Quotient(I(1), QPowNat(base, -exponent.n))
      [] base.k = "q" /\ exponent.k = "q" /\ exponent.d > 1 ->
            IF base.n < 0 THEN NaN
            ELSE LET Rooted(r) ==
                         IF r.k # "q" THEN SomeFloat
                         ELSE IF exponent.n > 0 THEN QPowNat(r, exponent.n)
                         ELSE Quotient(I(1), QPowNat(r, -exponent.n))
                 IN  Rooted(QRoot(base, exponent.d))
      [] exponent.k = "dec" /\ Sign(base) < 0 -> NaN
      [] OTHER -> SomeFloat

Power(base, exponent) == Pow(base, exponent)

\* math.Mod: the remainder has the sign of a
Mod(a, b) ==
    CASE a.k = "q" /\ b.k = "q" ->
            Subtract(a, Multiply(b, Trunc(Q(a.n * b.d, a.d * b.n))))
      [] a.k = "nan" \/ b.k = "nan" \/ a.k = "inf" -> NaN
      [] b.k = "inf" -> a
      [] OTHER -> SomeFloat

Modulus(a, b) ==
    IF IsZero(b) THEN Err("modulus by zero") ELSE Ok(Mod(a, b))

Percentage(value, percent) == Quotient(Multiply(value, percent), I(100))

\* the largest n whose factorial is a finite float64
MaxFiniteFactorial == 170

\* the product 2 * 3 * ... * n of the loop, in float64: exact while it fits
\* the exact range (n <= 12), the finite float64 nearest n! up to 170!, and
\* +Inf once the product overflows float64
RECURSIVE FactorialLoop(_)
FactorialLoop(n) == IF n < 2 THEN 1 ELSE n * FactorialLoop(n - 1)

FactorialProduct(n) ==
    IF n <= 12 THEN I(FactorialLoop(n))
    ELSE IF n <= MaxFiniteFactorial THEN BigFact(n)
    ELSE PosInf

DigitVal(c) == (CHOOSE j \in 1..10 : DigitChars[j] = c) - 1

\* the outcome of a call that never returns, carried like an error through
\* the callers: none of them runs on after it
NeverReturns == "never returns"

\* the digits of 2^53, from where on i++ leaves a float64 i unchanged
MaxExactDigits == Chars("9007199254740992")

\* a >= b for two runs of decimal digits of the same length
DigitsAtLeast(a, b) ==
    \/ a = b
    \/ \E i \in 1..Len(a) :
          /\ \A j \in 1..(i - 1) : a[j] = b[j]
          /\ DigitVal(a[i]) > DigitVal(b[i])

\* the loop for i := 2.0; i <= n; i++ has no end: n is +Inf, or n >= 2^53
\* (19! and above among the factorials) and i stops growing at 2^53
LoopsForever(n) ==
    \/ n.k = "inf"
    \/ n.k = "fact" /\ n.n >= 19
    \/ n.k = "dec" /\ n.d > Len(MaxExactDigits)
    \/ n.k = "dec" /\ n.d = Len(MaxExactDigits) /\ DigitsAtLeast(n.t, MaxExactDigits)

\* (a float64 known only as some irrational value is not an integer)
Factorial(n) ==
    IF n.k \in {"nan", "float"} \/ Sign(n) < 0 \/ (n.k = "q" /\ n.d # 1)
       \/ (n.k = "dec" /\ Len(n.t) > n.d)
    THEN Err("factorial undefined for non-integer or negative numbers")
    ELSE IF n.k = "q" THEN Ok(FactorialProduct(n.n))
    ELSE IF LoopsForever(n) THEN Err(NeverReturns)
    ELSE Ok(PosInf)


-----------------------------------------------------------------------------
(* fmt.Sprintf and strconv.ParseFloat *)

RECURSIVE DigitsOf(_)
DigitsOf(n) ==
    IF n < 10 THEN <<DigitChars[n + 1]>>
    ELSE DigitsOf(n \div 10) \o <<DigitChars[(n % 10) + 1]>>

RECURSIVE DigitsVal(_)
DigitsVal(ds) ==
    IF ds = <<>> THEN 0
    ELSE DigitsVal(SubSeq(ds, 1, Len(ds) - 1)) * 10 + DigitVal(ds[Len(ds)])

RECURSIVE StripLeadingZeros(_)
StripLeadingZeros(ds) ==
    IF Len(ds) > 1 /\ Head(ds) = "0" THEN StripLeadingZeros(Tail(ds)) ELSE ds

RECURSIVE StripTrailingZeros(_)
StripTrailingZeros(ds) ==
    IF ds # <<>> /\ ds[Len(ds)] = "0"
    THEN StripTrailingZeros(SubSeq(ds, 1, Len(ds) - 1)) ELSE ds

\* p digits of r/d (r < d) by long division, and the remainder left
RECURSIVE LongDiv(_, _, _)
LongDiv(r, d, p) ==
    IF p = 0 THEN [ds |-> <<>>, rem |-> r]
    ELSE LET rest == LongDiv((r * 10) % d, d, p - 1)
         IN  [ds |-> <<DigitChars[((r * 10) \div d) + 1]>> \o rest.ds, rem |-> rest.rem]

\* a digit string plus one in its last place
RECURSIVE IncDigits(_)
IncDigits(ds) ==
    IF ds = <<>> THEN [ds |-> <<>>, carry |-> 1]
    ELSE LET front == SubSeq(ds, 1, Len(ds) - 1)
             last == DigitVal(ds[Len(ds)])
         IN  IF last < 9 THEN [ds |-> front \o <<DigitChars[last + 2]>>, carry |-> 0]
             ELSE LET r == IncDigits(front)
                  IN  [ds |-> r.ds \o <<"0">>, carry |-> r.carry]

\* n/d >= 0 rounded to p fraction digits, ties to even: the integer part and
\* the fraction digits
FixedFrac(n, d, p) ==
    LET Carried(ip, inc) == [ip |-> ip + inc.carry, ds |-> inc.ds]
        LastOdd(ip, ds) == IF p = 0 THEN ip % 2 = 1 ELSE DigitVal(ds[p]) % 2 = 1
        Rounded(ip, ld) ==
            IF 2 * ld.rem > d \/ (2 * ld.rem = d /\ LastOdd(ip, ld.ds))
            THEN Carried(ip, IncDigits(ld.ds))
            ELSE [ip |-> ip, ds |-> ld.ds]
    IN  Rounded(n \div d, LongDiv(n % d, d, p))

SignText(sign) == IF sign < 0 THEN <<"-">> ELSE <<>>

\* the fraction digits of the constants and variables substituted into an expression
FracDigits == 10

\* a digit-held decimal rounded to p fraction digits; a literal that lies
\* exactly on a tie is left undefined (the float64 nearest it decides)
DecFixed(v, p) ==
    LET Carried(ipi) == (IF ipi.carry = 1 THEN <<"1">> ELSE <<>>) \o ipi.ds
        Up(ip, inc) ==
            IF inc.carry = 0 THEN [ip |-> ip, ds |-> inc.ds]
            ELSE [ip |-> Carried(IncDigits(ip)), ds |-> inc.ds]
        Rounded(ip, fr, pad) ==
            IF Len(fr) <= p THEN [ip |-> ip, ds |-> pad]
            ELSE CASE DigitVal(fr[p + 1]) < 5 -> [ip |-> ip, ds |-> pad]
                   [] DigitVal(fr[p + 1]) > 5 \/ Len(fr) > p + 1 -> Up(ip, IncDigits(pad))
    IN  Rounded(SubSeq(v.t, 1, v.d), SubSeq(v.t, v.d + 1, Len(v.t)),
                [i \in 1..p |-> IF v.d + i <= Len(v.t) THEN v.t[v.d + i] ELSE "0"])

\* fmt.Sprintf("%.10f", v)
Format10(v) ==
    CASE v.k = "q" ->
            LET Text(f) == SignText(v.n) \o DigitsOf(f.ip) \o <<".">> \o f.ds
            IN  Text(FixedFrac(IAbs(v.n), v.d, FracDigits))
      [] v.k = "dec" ->
            LET Text(f) == SignText(v.n) \o f.ip \o <<".">> \o f.ds
            IN  Text(DecFixed(v, FracDigits))
      [] v.k = "inf" -> IF v.n > 0 THEN Chars("+Inf") ELSE Chars("-Inf")
      [] v.k = "nan" -> Chars("NaN")

\* the decimal exponent of n/d > 0: 10^x <= n/d < 10^(x+1)
RECURSIVE NegExp(_, _)
NegExp(n, d) == IF n * 10 >= d THEN -1 ELSE NegExp(n * 10, d) - 1

DecimalExp(n, d) == IF n >= d THEN Len(DigitsOf(n \div d)) - 1 ELSE NegExp(n, d)

FracText(ds) ==
    LET Text(tr) == IF tr = <<>> THEN <<>> ELSE <<".">> \o tr
    IN  Text(StripTrailingZeros(ds))

\* the %e form of n/d > 0 with six significant digits, trailing zeros removed
SciText(n, d, x) ==
    LET Two(ex) == IF Len(ex) < 2 THEN <<"0">> \o ex ELSE ex
        Text(m) ==
            DigitsOf(m.ip) \o FracText(m.ds) \o <<"e">>
            \o (IF m.x < 0 THEN <<"-">> ELSE <<"+">>) \o Two(DigitsOf(IAbs(m.x)))
        Mantissa(f) ==
            IF f.ip = 10 THEN [ip |-> 1, ds |-> <<"0", "0", "0", "0", "0">>, x |-> x + 1]
            ELSE [ip |-> f.ip, ds |-> f.ds, x |-> x]
    IN  Text(Mantissa(FixedFrac(IF x >= 0 THEN n ELSE n * Pow10(-x),
                                IF x >= 0 THEN d * Pow10(x) ELSE d, 5)))

\* %.6g of n/d > 0
G6Text(n, d) ==
    LET Fixed(f, x) ==
            IF f.ip >= 1000000 THEN SciText(n, d, x) ELSE DigitsOf(f.ip) \o FracText(f.ds)
        Text(x) ==
            IF x < -4 \/ x >= 6 THEN SciText(n, d, x) ELSE Fixed(FixedFrac(n, d, 5 - x), x)
    IN  Text(DecimalExp(n, d))

\* fmt.Sprintf("%.6g", v).  The digits of a value held as "fact" or "float"
\* are outside the exact range: its rendering is one symbol naming it.
FormatG6(v) ==
    CASE v.k = "q" ->
            IF v.n = 0 THEN <<"0">> ELSE SignText(v.n) \o G6Text(IAbs(v.n), v.d)
      [] v.k = "dec" ->
            \* the leading digits with a sticky last digit round as the value does
            SignText(v.n)
            \o G6Text(DigitsVal(SubSeq(v.t, 1, v.d)
                                \o [i \in 1..7 |-> IF v.d + i <= Len(v.t) THEN v.t[v.d + i]
                                                    ELSE "0"]) * 10
                      + (IF Len(v.t) - v.d > 7 THEN 1 ELSE 0), Pow10(8))
      [] v.k = "inf" -> IF v.n > 0 THEN Chars("+Inf") ELSE Chars("-Inf")
      [] v.k = "nan" -> Chars("NaN")
      [] v.k = "fact" -> <<"fact">> \o DigitsOf(v.n)
      [] v.k = "float" -> <<"float">>

\* the maximal run of digits of s from position i on
RECURSIVE DigitRun(_, _)
DigitRun(s, i) ==
    IF i <= Len(s) /\ s[i] \in Digits THEN <<s[i]>> \o DigitRun(s, i + 1) ELSE <<>>

\* strconv.ParseFloat(s, 64) on the text of a token: an optional sign, digits
\* with at most one point, an optional exponent.  (The words inf, infinity
\* and nan, hexadecimal and underscored literals are also floats to
\* ParseFloat; no token of the tokenizer spells them.)
ParseFloat(s) ==
    LET Value(sign, sig, frT, hasExp, e) ==
            IF sig = <<"0">> /\ frT = <<>> THEN [ok |-> TRUE, val |-> I(0)]
            ELSE IF e > 308 THEN [ok |-> FALSE, val |-> PosInf]    \* ErrRange
            ELSE IF Len(sig) + Len(frT) <= 9 /\ e = 0
            THEN [ok |-> TRUE, val |-> Q(sign * DigitsVal(sig \o frT), Pow10(Len(frT)))]
            ELSE IF Len(sig) + Len(frT) <= 4 /\ e \in 1..5
            THEN [ok |-> TRUE,
                  val |-> Q(sign * DigitsVal(sig \o frT) * Pow10(e), Pow10(Len(frT)))]
            ELSE IF Len(sig) + Len(frT) <= 4 /\ -e \in 1..5
            THEN [ok |-> TRUE,
                  val |-> Q(sign * DigitsVal(sig \o frT), Pow10(Len(frT) - e))]
            ELSE IF ~hasExp THEN [ok |-> TRUE, val |-> Dec(sign, sig, frT)]
            ELSE [ok |-> TRUE, val |-> SomeFloat]
        Exponent(esign, ex) == IF Len(ex) <= 3 THEN esign * DigitsVal(ex) ELSE esign * 999
        Parsed(sign, ip, fr, hasExp, esign, ex, end) ==
            IF ~(/\ Len(ip) + Len(fr) > 0
                 /\ hasExp => ex # <<>>
                 /\ end = Len(s) + 1)
            THEN [ok |-> FALSE, val |-> I(0)]
            ELSE Value(sign, StripLeadingZeros(IF ip = <<>> THEN <<"0">> ELSE ip),
                       StripTrailingZeros(fr), hasExp,
                       IF hasExp THEN Exponent(esign, StripLeadingZeros(ex)) ELSE 0)
        ExpDigits(sign, ip, fr, hasExp, esign, p, ex) ==
            Parsed(sign, ip, fr, hasExp, esign, ex, p + Len(ex))
        ExpSign(sign, ip, fr, p, esg) ==
            ExpDigits(sign, ip, fr, TRUE, IF esg = 1 /\ s[p + 1] = "-" THEN -1 ELSE 1,
                      p + 1 + esg, DigitRun(s, p + 1 + esg))
        AfterFrac(sign, ip, fr, p) ==
            IF p <= Len(s) /\ s[p] \in {"e", "E"}
            THEN ExpSign(sign, ip, fr, p,
                         IF p + 1 <= Len(s) /\ s[p + 1] \in {"+", "-"} THEN 1 ELSE 0)
            ELSE Parsed(sign, ip, fr, FALSE, 1, <<>>, p)
        FracDigitRun(sign, ip, p, fr) == AfterFrac(sign, ip, fr, p + 1 + Len(fr))
        AfterInt(sign, ip, p) ==
            IF p <= Len(s) /\ s[p] = "." THEN FracDigitRun(sign, ip, p, DigitRun(s, p + 1))
            ELSE AfterFrac(sign, ip, <<>>, p)
        IntDigits(sign, sg, ip) == AfterInt(sign, ip, sg + 1 + Len(ip))
        Signed(sg) == IntDigits(IF sg = 1 /\ s[1] = "-" THEN -1 ELSE 1, sg, DigitRun(s, sg + 1))
    IN  Signed(IF s # <<>> /\ s[1] \in {"+", "-"} THEN 1 ELSE 0)

\* math.Pi and math.E, by the digits of the float64
Pi == Dec(1, <<"3">>, Chars("141592653589793"))
E == Dec(1, <<"2">>, Chars("718281828459045"))


-----------------------------------------------------------------------------
(* calculator/scientific.go: a value is exact where the function is rational *)
(* at a rational point of the exact range, and a "float" elsewhere           *)

AtZero(x, atZero) ==
    CASE IsZero(x) -> atZero
      [] x.k \in {"nan", "inf"} -> NaN
      [] OTHER -> SomeFloat

Sin(x) == AtZero(x, I(0))
Cos(x) == AtZero(x, I(1))
Tan(x) == AtZero(x, I(0))

Asin(x) ==
    IF Less(x, I(-1)) \/ Less(I(1), x)
    THEN Err("asin input must be between -1 and 1")
    ELSE Ok(AtZero(x, I(0)))

Acos(x) ==
    IF Less(x, I(-1)) \/ Less(I(1), x)
    THEN Err("acos input must be between -1 and 1")
    ELSE Ok(IF x = I(1) THEN I(0) ELSE IF x.k = "nan" THEN NaN ELSE SomeFloat)

Atan(x) == IF x.k = "inf" THEN SomeFloat ELSE AtZero(x, I(0))

Sinh(x) == IF x.k = "inf" THEN x ELSE AtZero(x, I(0))
Cosh(x) == IF x.k = "inf" THEN PosInf ELSE AtZero(x, I(1))
Tanh(x) == IF x.k = "inf" THEN I(x.n) ELSE AtZero(x, I(0))

Sqrt(x) ==
    IF Less(x, I(0)) THEN Err("square root of negative number")
    ELSE Ok(CASE x.k = "q" -> QRoot(x, 2)
              [] x.k \in {"nan", "inf"} -> x
              [] OTHER -> SomeFloat)

Cbrt(x) ==
    CASE x.k = "q" -> IF x.n < 0 THEN Neg(QRoot(Neg(x), 3)) ELSE QRoot(x, 3)
      [] x.k \in {"nan", "inf"} -> x
      [] OTHER -> SomeFloat

Log(x) ==
    IF x.k # "nan" /\ ~Less(I(0), x)
    THEN Err("logarithm undefined for non-positive numbers")
    ELSE Ok(CASE x = I(1) -> I(0)
              [] x.k \in {"nan", "inf"} -> x
              [] OTHER -> SomeFloat)

\* the k with 10^k = n, or -1
RECURSIVE Log10From(_, _)
Log10From(k, n) ==
    IF Pow10(k) = n THEN k ELSE IF Pow10(k) > n \/ k >= 9 THEN -1 ELSE Log10From(k + 1, n)

Log10(x) ==
    IF x.k # "nan" /\ ~Less(I(0), x)
    THEN Err("log10 undefined for non-positive numbers")
    ELSE Ok(CASE x.k = "q" /\ x.d = 1 /\ Log10From(0, x.n) >= 0 -> I(Log10From(0, x.n))
              [] x.k \in {"nan", "inf"} -> x
              [] OTHER -> SomeFloat)

Exp(x) ==
    CASE IsZero(x) -> I(1)
      [] x.k = "nan" -> NaN
      [] x.k = "inf" -> IF x.n > 0 THEN PosInf ELSE I(0)
      [] OTHER -> SomeFloat

Abs(x) == IF Sign(x) < 0 THEN Neg(x) ELSE x

\* utils.DegreesToRadians: degrees * math.Pi / 180
DegreesToRadians(degrees) == Quotient(Multiply(degrees, Pi), I(180))

-----------------------------------------------------------------------------
(* utils/validators.go *)

\* HasBalancedParentheses: the running balance from position i on
RECURSIVE BalancedFrom(_, _, _)
BalancedFrom(expr, i, balance) ==
    IF i > Len(expr) THEN balance = 0
    ELSE IF expr[i] = "(" THEN BalancedFrom(expr, i + 1, balance + 1)
    ELSE IF expr[i] = ")"
         THEN IF balance - 1 < 0 THEN FALSE ELSE BalancedFrom(expr, i + 1, balance - 1)
    ELSE BalancedFrom(expr, i + 1, balance)

HasBalancedParentheses(expr) == BalancedFrom(expr, 1, 0)

OperatorChars == {"+", "-", "*", "/", "^", "%"}

\* (a variant without the exemption of a sign after a sign)
HasConsecutiveOperatorsAnyPair(expr) ==
    \E i \in 2..Len(expr) : expr[i - 1] \in OperatorChars /\ expr[i] \in OperatorChars

HasConsecutiveOperators(expr) ==
    \E i \in 2..Len(expr) :
        /\ expr[i - 1] \in OperatorChars
        /\ expr[i] \in OperatorChars
        /\ ~(expr[i - 1] \in {"+", "-"} /\ expr[i] \in {"+", "-"})

\* the characters of ValidExpressionRegex: ^[0-9+\-*/().^%!a-z(pi sign)e\s]+$
\* (the pi sign is written "pi-sign" here: one character of the alphabet)
ValidExpressionChars ==
    Digits \cup LowerLetters
    \cup {"+", "-", "*", "/", "(", ")", ".", "^", "%", "!", "pi-sign", " "}

MatchesValidExpressionRegex(expr) ==
    expr # <<>> /\ \A i \in 1..Len(expr) : expr[i] \in ValidExpressionChars

\* the names matched by ([a-z]+)\( : before each "(", the maximal run of
\* lower-case letters that ends there
RECURSIVE LowerRunBefore(_, _)
LowerRunBefore(expr, i) ==
    IF i >= 1 /\ expr[i] \in LowerLetters
    THEN LowerRunBefore(expr, i - 1) \o <<expr[i]>> ELSE <<>>

RECURSIVE CalledNamesFrom(_, _)
CalledNamesFrom(expr, i) ==
    IF i > Len(expr) THEN <<>>
    ELSE IF expr[i] = "(" /\ LowerRunBefore(expr, i - 1) # <<>>
    THEN <<LowerRunBefore(expr, i - 1)>> \o CalledNamesFrom(expr, i + 1)
    ELSE CalledNamesFrom(expr, i + 1)

validFunctions ==
    {Chars(f) : f \in {"sin", "cos", "tan", "asin", "acos", "atan", "sinh", "cosh",
                       "tanh", "sqrt", "cbrt", "log", "log10", "exp", "abs"}}

\* the error text, "" for nil
ValidateFunctionCalls(expr) ==
    LET Unknown(names) == \E i \in 1..Len(names) : names[i] \notin validFunctions
    IN  IF Unknown(CalledNamesFrom(expr, 1)) THEN "unknown function"
        ELSE IF CountChar(expr, "(") # CountChar(expr, ")") THEN "mismatched parentheses"
        ELSE ""

\* the end (exclusive) of the match of -?\d*\.?\d+(?:[eE][+-]?\d+)? that
\* starts at position i, or 0 when none starts there
NumberMatchEnd(expr, i) ==
    LET ExpEnd(p, esg, ex) == IF ex # <<>> THEN p + 1 + esg + Len(ex) ELSE p
        ExpSign(p, esg) == ExpEnd(p, esg, DigitRun(expr, p + 1 + esg))
        Mantissa(d1, d2, p) ==
            IF d1 = <<>> /\ d2 = <<>> THEN 0
            ELSE IF p <= Len(expr) /\ expr[p] \in {"e", "E"}
            THEN ExpSign(p, IF p + 1 <= Len(expr) /\ expr[p + 1] \in {"+", "-"}
                            THEN 1 ELSE 0)
            ELSE p
        Fraction(d1, p, d2) == Mantissa(d1, d2, IF d2 # <<>> THEN p + 1 + Len(d2) ELSE p)
        Integer(p, d1) ==
            Fraction(d1, p + Len(d1),
                     IF p + Len(d1) <= Len(expr) /\ expr[p + Len(d1)] = "."
                     THEN DigitRun(expr, p + Len(d1) + 1) ELSE <<>>)
        Signed(p) == Integer(p, DigitRun(expr, p))
    IN  Signed(IF expr[i] = "-" THEN i + 1 ELSE i)

\* numberPattern.FindAllString(expr, -1)
RECURSIVE NumbersFrom(_, _)
NumbersFrom(expr, i) ==
    IF i > Len(expr) THEN <<>>
    ELSE LET Match(e) == IF e = 0 THEN NumbersFrom(expr, i + 1)
                          ELSE <<SubSeq(expr, i, e - 1)>> \o NumbersFrom(expr, e)
         IN  Match(NumberMatchEnd(expr, i))

\* strings.Split(strings.ToLower(s), "e")
RECURSIVE SplitOn(_, _)
SplitOn(s, c) ==
    IF \A i \in 1..Len(s) : s[i] # c THEN <<s>>
    ELSE LET i == CHOOSE j \in 1..Len(s) : s[j] = c /\ \A h \in 1..(j - 1) : s[h] # c
         IN  <<SubSeq(s, 1, i - 1)>> \o SplitOn(SubSeq(s, i + 1, Len(s)), c)

\* utils.ParseScientificNotation: whether it returns no error
ParseScientificNotation(s) ==
    LET Parts(parts) ==
            /\ Len(parts) = 2
            /\ ParseFloat(parts[1]).ok
            /\ ParseFloat(parts[2]).ok
    IN  Parts(SplitOn(ToLower(s), "e"))

\* ValidNumberRegex: ^-?\d*\.?\d+(?:[eE][+-]?\d+)?$
MatchesValidNumberRegex(s) == s # <<>> /\ NumberMatchEnd(s, 1) = Len(s) + 1

ValidNumber(numStr) ==
    /\ MatchesValidNumberRegex(numStr)
    /\ CountChar(numStr, ".") <= 1
    /\ (\E i \in 1..Len(numStr) : numStr[i] \in {"e", "E"}) =>
          /\ Len(SplitOn(ToLower(numStr), "e")) = 2
          /\ ParseScientificNotation(numStr)

ValidateNumbers(expr) ==
    LET Valid(numbers) == \A i \in 1..Len(numbers) : ValidNumber(numbers[i])
    IN  IF Valid(NumbersFrom(expr, 1)) THEN "" ELSE "invalid number"

\* the error text, "" for nil
ValidateExpression(expr) ==
    IF expr = <<>> THEN "empty expression"
    ELSE IF ~HasBalancedParentheses(expr) THEN "unbalanced parentheses"
    ELSE IF HasConsecutiveOperators(expr) THEN "consecutive operators"
    ELSE IF ~MatchesValidExpressionRegex(expr) THEN "invalid characters in expression"
    ELSE IF Contains(expr, <<"/", "0">>) /\ ~Contains(expr, <<"/", "0", ".">>)
         THEN "potential division by zero"
    ELSE LET First(err, next) == IF err # "" THEN err ELSE next
         IN  First(ValidateFunctionCalls(expr), ValidateNumbers(expr))

ValidIdentifierChars == LowerLetters \cup UpperLetters \cup Digits \cup {"_"}

\* ValidIdentifierRegex: ^[a-zA-Z_][a-zA-Z0-9_]*$
MatchesValidIdentifierRegex(name) ==
    /\ name # <<>>
    /\ name[1] \in LowerLetters \cup UpperLetters \cup {"_"}
    /\ \A i \in 1..Len(name) : name[i] \in ValidIdentifierChars

reserved ==
    {Chars(w) : w \in {"pi", "e", "ans", "sin", "cos", "tan", "asin", "acos", "atan",
                       "sinh", "cosh", "tanh", "sqrt", "cbrt", "log", "log10", "exp",
                       "abs", "exit", "quit", "help", "clear", "mem", "history"}}

\* (a variant that compares the name as written comes first)
IsReservedKeywordAsWritten(s) == s \in reserved

IsReservedKeyword(s) == ToLower(s) \in reserved

IsValidVariableName(name) == MatchesValidIdentifierRegex(name) /\ ~IsReservedKeyword(name)


-----------------------------------------------------------------------------
(* calculator/memory.go, calculator/history.go: operations on the fields *)

\* the most entries the history keeps
HistoryCap == 100

\* AddToHistory keeping the first HistoryCap entries: the newest is dropped
AddToHistoryDropsNewest(h, expression, result) ==
    LET Capped(appended) ==
            IF Len(appended) > HistoryCap THEN SubSeq(appended, 1, HistoryCap) ELSE appended
    IN  Capped(Append(h, expression \o <<" ", "=", " ">> \o FormatG6(result)))

\* AddToHistory on a history h
AddToHistory(h, expression, result) ==
    LET Capped(appended) == IF Len(appended) > HistoryCap THEN Tail(appended) ELSE appended
    IN  Capped(Append(h, expression \o <<" ", "=", " ">> \o FormatG6(result)))

\* GetHistory: one HistoryEntry per stored line; Result is left at its zero
\* value and Timestamp is the time of the call
GetHistory(h) == [i \in 1..Len(h) |-> [Expression |-> h[i], Result |-> I(0)]]

-----------------------------------------------------------------------------
(* parser/expression.go: tokens to value.  A token is a text. *)

unaryMinus == <<"~">>

ops == [o \in {"+", "-", "*", "/", "%", "^"} |->
          CASE o \in {"+", "-"} -> 1
            [] o \in {"*", "/", "%"} -> 2
            [] o = "^" -> 3]

isDigit(ch) == ch \in Digits

isNumber(s) == ParseFloat(s).ok

isOperator(token) == (Len(token) = 1 /\ token[1] \in DOMAIN ops) \/ token = unaryMinus

\* (a variant with the unary minus below the power operator)
precedenceLowUnaryMinus(op) ==
    IF op = unaryMinus THEN 2
    ELSE IF Len(op) = 1 /\ op[1] \in DOMAIN ops THEN ops[op[1]]
    ELSE 0

precedence(op) ==
    IF op = unaryMinus THEN 4
    ELSE IF Len(op) = 1 /\ op[1] \in DOMAIN ops THEN ops[op[1]]
    ELSE 0

RECURSIVE TokenizeFrom(_, _, _)
TokenizeFrom(expr, i, current) ==
    IF i > Len(expr) THEN (IF Len(current) > 0 THEN <<current>> ELSE <<>>)
    ELSE IF isDigit(expr[i]) \/ expr[i] = "."
            \/ (expr[i] = "e" /\ i > 1 /\ isDigit(expr[i - 1]))
    THEN TokenizeFrom(expr, i + 1, current \o <<expr[i]>>)
    ELSE (IF Len(current) > 0 THEN <<current>> ELSE <<>>)
         \o (IF expr[i] # " " THEN <<(<<expr[i]>>)>> ELSE <<>>)
         \o TokenizeFrom(expr, i + 1, <<>>)

tokenize(expr) == TokenizeFrom(expr, 1, <<>>)

isUnaryMinus(tokens, i) ==
    IF i = 1 THEN TRUE
    ELSE LET prev == tokens[i - 1]
         IN  ~isNumber(prev) /\ prev # <<")">> /\ prev # unaryMinus

isUnaryPlus(tokens, i) ==
    IF i = 1 THEN TRUE
    ELSE LET prev == tokens[i - 1]
         IN  ~isNumber(prev) /\ prev # <<")">> /\ prev # unaryMinus

RECURSIVE UnaryFrom(_, _)
UnaryFrom(tokens, i) ==
    IF i > Len(tokens) THEN <<>>
    ELSE IF tokens[i] = <<"-">> /\ isUnaryMinus(tokens, i)
    THEN <<unaryMinus>> \o UnaryFrom(tokens, i + 1)
    ELSE IF tokens[i] = <<"+">> /\ isUnaryPlus(tokens, i)
    THEN UnaryFrom(tokens, i + 1)
    ELSE <<tokens[i]>> \o UnaryFrom(tokens, i + 1)

processUnaryOperators(tokens) == UnaryFrom(tokens, 1)

\* the operator stack (top last) popped into the output while pred holds of its top
RECURSIVE PopWhile(_, _, _)
PopWhile(output, stack, token) ==
    IF Len(stack) > 0 /\ stack[Len(stack)] # <<"(">>
       /\ (token = <<")">> \/ precedence(stack[Len(stack)]) >= precedence(token))
    THEN PopWhile(Append(output, stack[Len(stack)]), SubSeq(stack, 1, Len(stack) - 1), token)
    ELSE [output |-> output, stack |-> stack]

\* the final loop: every operator left on the stack goes to the output
RECURSIVE Drain(_, _)
Drain(output, stack) ==
    IF Len(stack) = 0 THEN [ok |-> TRUE, rpn |-> output, err |-> ""]
    ELSE IF stack[Len(stack)] = <<"(">>
    THEN [ok |-> FALSE, rpn |-> <<>>, err |-> "mismatched parentheses"]
    ELSE Drain(Append(output, stack[Len(stack)]), SubSeq(stack, 1, Len(stack) - 1))

RECURSIVE ShuntFrom(_, _, _, _)
ShuntFrom(tokens, i, output, stack) ==
    IF i > Len(tokens) THEN Drain(output, stack)
    ELSE LET Closed(p) ==
                 IF Len(p.stack) = 0
                 THEN [ok |-> FALSE, rpn |-> <<>>, err |-> "mismatched parentheses"]
                 ELSE ShuntFrom(tokens, i + 1, p.output, SubSeq(p.stack, 1, Len(p.stack) - 1))
             Pushed(p, token) == ShuntFrom(tokens, i + 1, p.output, Append(p.stack, token))
             Step(token) ==
                 IF isNumber(token) THEN ShuntFrom(tokens, i + 1, Append(output, token), stack)
                 ELSE IF token = <<"(">>
                 THEN ShuntFrom(tokens, i + 1, output, Append(stack, token))
                 ELSE IF token = <<")">> THEN Closed(PopWhile(output, stack, token))
                 ELSE IF isOperator(token) THEN Pushed(PopWhile(output, stack, token), token)
                 ELSE [ok |-> FALSE, rpn |-> <<>>, err |-> "invalid token"]
         IN  Step(tokens[i])

shuntingYard(tokens) == ShuntFrom(tokens, 1, <<>>, <<>>)

\* the binary operator of evaluateRPN's switch
ApplyOperator(token, a, b) ==
    CASE token = <<"+">> -> Ok(Add(a, b))
      [] token = <<"-">> -> Ok(Subtract(a, b))
      [] token = <<"*">> -> Ok(Multiply(a, b))
      [] token = <<"/">> -> Divide(a, b)
      [] token = <<"^">> -> Ok(Power(a, b))
      [] token = <<"%">> -> Modulus(a, b)
      [] OTHER -> Err("unknown operator")

RECURSIVE RpnFrom(_, _, _)
RpnFrom(rpn, i, stack) ==
    IF i > Len(rpn)
    THEN (IF Len(stack) # 1 THEN Err("invalid expression") ELSE Ok(stack[1]))
    ELSE LET Applied(r) ==
                 IF ~r.ok THEN r
                 ELSE RpnFrom(rpn, i + 1, Append(SubSeq(stack, 1, Len(stack) - 2), r.val))
             Number(num) ==
                 IF num.ok THEN RpnFrom(rpn, i + 1, Append(stack, num.val))
                 ELSE IF rpn[i] = unaryMinus
                 THEN IF Len(stack) < 1 THEN Err("insufficient operands for unary minus")
                      ELSE RpnFrom(rpn, i + 1,
                                   [stack EXCEPT ![Len(stack)] = Neg(stack[Len(stack)])])
                 ELSE IF isOperator(rpn[i])
                 THEN IF Len(stack) < 2 THEN Err("insufficient operands for operator")
                      ELSE Applied(ApplyOperator(rpn[i], stack[Len(stack) - 1],
                                                 stack[Len(stack)]))
                 ELSE Err("unknown token in RPN")
         IN  Number(ParseFloat(rpn[i]))

\* (a variant that starts on a stack holding a zero, so that a missing
\* operand is taken as 0)
evaluateRPNFromZero(rpn) == RpnFrom(rpn, 1, <<I(0)>>)

evaluateRPN(rpn) == RpnFrom(rpn, 1, <<>>)

\* the loop of evaluateWithFactorial: Factorial applied count times
RECURSIVE FactorialTimes(_, _)
FactorialTimes(result, count) ==
    IF count = 0 THEN Ok(result)
    ELSE LET Applied(r) == IF ~r.ok THEN r ELSE FactorialTimes(r.val, count - 1)
         IN  Applied(Factorial(result))

RECURSIVE evaluate(_)
evaluateWithFactorial(expr) ==
    LET Based(base, factorialCount) ==
            IF ~base.ok THEN base ELSE FactorialTimes(base.val, factorialCount)
        Split(lastFactorial) ==
            IF lastFactorial = -1 THEN Err("no factorial operator found")
            ELSE Based(evaluate(SubSeq(expr, 1, lastFactorial)), Len(expr) - lastFactorial)
    IN  Split(LastIndexChar(expr, "!") - 1)

\* the number of times evaluate and evaluateWithFactorial apply Factorial to
\* an expression whose parts evaluate without error: factorialCount of the
\* expression and the applications inside its base
RECURSIVE FactorialApplications(_)
FactorialApplications(expr) ==
    LET Split(lastFactorial) ==
            FactorialApplications(SubSeq(expr, 1, lastFactorial))
                + (Len(expr) - lastFactorial)
    IN  IF ~Contains(expr, <<"!">>) THEN 0 ELSE Split(LastIndexChar(expr, "!") - 1)

evaluate(expr) ==
    IF Contains(expr, <<"!">>) THEN evaluateWithFactorial(expr)
    ELSE LET Postfix(rpn) == IF ~rpn.ok THEN Err(rpn.err) ELSE evaluateRPN(rpn.rpn)
         IN  Postfix(shuntingYard(processUnaryOperators(tokenize(expr))))


-----------------------------------------------------------------------------
(* parser/expression.go: preprocessing and EvaluateExpression.               *)
(* An evaluation reads and writes the Calculator and the constant ans, also  *)
(* from the evaluations nested in it: the record st of the fields            *)
(* lastResult, history, ans, variables and angleMode is threaded through     *)
(* the calls.  The variable table and the angle mode are only read.          *)

WordChars == LowerLetters \cup UpperLetters \cup Digits \cup {"_"}

\* whether \bname\b matches at position i of s
WordAt(s, i, name) ==
    /\ HasPrefixAt(s, i, name)
    /\ i = 1 \/ s[i - 1] \notin WordChars
    /\ i + Len(name) > Len(s) \/ s[i + Len(name)] \notin WordChars

\* pattern.ReplaceAllString(s, text) for the pattern \bname\b
RECURSIVE ReplaceWordFrom(_, _, _, _)
ReplaceWordFrom(s, i, name, text) ==
    IF i > Len(s) THEN <<>>
    ELSE IF WordAt(s, i, name) THEN text \o ReplaceWordFrom(s, i + Len(name), name, text)
    ELSE <<s[i]>> \o ReplaceWordFrom(s, i + 1, name, text)

HasWord(s, name) == \E i \in 1..Len(s) : WordAt(s, i, name)

\* one constant or variable replaced by the %.10f text of its value
Substitute(s, name, value) ==
    IF HasWord(s, name) THEN ReplaceWordFrom(s, 1, name, Format10(value)) ELSE s

\* the loop over a map with the names in keys, in some order.  The texts
\* substituted hold no name (they are digits, a sign and a point) as long as
\* no value is infinite or NaN, so the order of the iteration does not show.
RECURSIVE SubstituteAll(_, _, _)
SubstituteAll(s, keys, table) ==
    IF keys = {} THEN s
    ELSE LET name == CHOOSE k \in keys : TRUE
         IN  SubstituteAll(Substitute(s, name, table[name]), keys \ {name}, table)

constants(ansValue) ==
    (Chars("pi") :> Pi) @@ (Chars("e") :> E) @@ (Chars("ans") :> ansValue)

IdentStart == LowerLetters \cup UpperLetters \cup {"_"}

RECURSIVE IdentRun(_, _)
IdentRun(s, i) ==
    IF i <= Len(s) /\ s[i] \in WordChars THEN <<s[i]>> \o IdentRun(s, i + 1) ELSE <<>>

\* whether funcRegex, ([a-zA-Z_][a-zA-Z0-9_]*)\(([^)]*)\), matches at position i
FuncMatchAt(s, i) ==
    /\ s[i] \in IdentStart
    /\ LET Open(p) ==
               /\ p <= Len(s)
               /\ s[p] = "("
               /\ \E j \in (p + 1)..Len(s) : s[j] = ")"
       IN  Open(i + Len(IdentRun(s, i)))

\* funcRegex.FindStringSubmatch: the leftmost match; the arguments run to the
\* first ")" after the "("
FindFunc(s) ==
    LET Match(i, name, close) ==
            [found |-> TRUE, whole |-> SubSeq(s, i, close), name |-> name,
             args |-> SubSeq(s, i + Len(name) + 1, close - 1)]
        Named(i, name) ==
            Match(i, name, CHOOSE a \in (i + Len(name) + 1)..Len(s) :
                               s[a] = ")" /\ \A b \in (i + Len(name) + 1)..(a - 1) : s[b] # ")")
        At(i) == Named(i, IdentRun(s, i))
    IN  IF \E i \in 1..Len(s) : FuncMatchAt(s, i)
        THEN At(CHOOSE a \in 1..Len(s) :
                    FuncMatchAt(s, a) /\ \A b \in 1..(a - 1) : ~FuncMatchAt(s, b))
        ELSE [found |-> FALSE, whole |-> <<>>, name |-> <<>>, args |-> <<>>]

\* strings.Replace(s, old, new, 1)
ReplaceFirst(s, old, new) ==
    IF Contains(s, old)
    THEN LET At(i) == SubSeq(s, 1, i - 1) \o new \o SubSeq(s, i + Len(old), Len(s))
         IN  At(CHOOSE a \in 1..(Len(s) + 1) :
                    HasPrefixAt(s, a, old) /\ \A b \in 1..(a - 1) : ~HasPrefixAt(s, b, old))
    ELSE s

\* parseArguments: split at the commas of parenthesis depth 0
RECURSIVE ArgsFrom(_, _, _, _)
ArgsFrom(argsStr, i, current, parenDepth) ==
    IF i > Len(argsStr)
    THEN (IF Len(current) > 0 THEN <<TrimSpace(current)>> ELSE <<>>)
    ELSE LET ch == argsStr[i]
         IN  IF ch = "(" THEN ArgsFrom(argsStr, i + 1, Append(current, ch), parenDepth + 1)
             ELSE IF ch = ")"
             THEN ArgsFrom(argsStr, i + 1, Append(current, ch), parenDepth - 1)
             ELSE IF ch = "," /\ parenDepth = 0
             THEN <<TrimSpace(current)>> \o ArgsFrom(argsStr, i + 1, <<>>, parenDepth)
             ELSE ArgsFrom(argsStr, i + 1, Append(current, ch), parenDepth)

parseArguments(argsStr) == IF argsStr = <<>> THEN <<>> ELSE ArgsFrom(argsStr, 1, <<>>, 0)

HasSuffixH(name) == name # <<>> /\ name[Len(name)] = "h"

evaluateTrigFunction(name, arg0, mode) ==
    LET Switch(arg) ==
            CASE name = <<"s", "i", "n">> -> Ok(Sin(arg))
              [] name = <<"c", "o", "s">> -> Ok(Cos(arg))
              [] name = <<"t", "a", "n">> -> Ok(Tan(arg))
              [] name = <<"a", "s", "i", "n">> -> Asin(arg)
              [] name = <<"a", "c", "o", "s">> -> Acos(arg)
              [] name = <<"a", "t", "a", "n">> -> Ok(Atan(arg))
              [] name = <<"s", "i", "n", "h">> -> Ok(Sinh(arg))
              [] name = <<"c", "o", "s", "h">> -> Ok(Cosh(arg))
              [] name = <<"t", "a", "n", "h">> -> Ok(Tanh(arg))
              [] OTHER -> Err("unknown trigonometric function")
    IN  Switch(IF mode = "deg" /\ ~HasSuffixH(name) THEN DegreesToRadians(arg0) ELSE arg0)

evaluateMathFunction(name, arg) ==
    CASE name = Chars("sqrt") -> Sqrt(arg)
      [] name = Chars("cbrt") -> Ok(Cbrt(arg))
      [] name = Chars("log") -> Log(arg)
      [] name = Chars("log10") -> Log10(arg)
      [] name = Chars("exp") -> Ok(Exp(arg))
      [] name = Chars("abs") -> Ok(Abs(arg))
      [] OTHER -> Err("unknown math function")

\* math.Round, math.Floor, math.Ceil on an exact rational
Floor(v) == IF v.k = "q" THEN I(v.n \div v.d) ELSE v
Ceil(v) == IF v.k = "q" THEN I(-((-v.n) \div v.d)) ELSE v
Round(v) ==
    IF v.k = "q"
    THEN (IF v.n >= 0 THEN I((2 * v.n + v.d) \div (2 * v.d))
          ELSE I(-((2 * (-v.n) + v.d) \div (2 * v.d))))
    ELSE v

evaluateRounding(name, value, precision) ==
    LET Scaled(multiplier) ==
            CASE name = <<"r", "o", "u", "n", "d">> ->
                    Ok(Quotient(Round(Multiply(value, multiplier)), multiplier))
              [] name = <<"f", "l", "o", "o", "r">> ->
                    Ok(Quotient(Floor(Multiply(value, multiplier)), multiplier))
              [] name = <<"c", "e", "i", "l">> ->
                    Ok(Quotient(Ceil(Multiply(value, multiplier)), multiplier))
              [] OTHER -> Ok(value)
    IN  Scaled(Pow(I(10), I(precision)))

RECURSIVE MinFrom(_, _, _)
MinFrom(values, i, minVal) ==
    IF i > Len(values) THEN minVal
    ELSE MinFrom(values, i + 1, IF Less(values[i], minVal) THEN values[i] ELSE minVal)

min(values) == IF Len(values) = 0 THEN I(0) ELSE MinFrom(values, 2, values[1])

RECURSIVE MaxFrom(_, _, _)
MaxFrom(values, i, maxVal) ==
    IF i > Len(values) THEN maxVal
    ELSE MaxFrom(values, i + 1, IF Less(maxVal, values[i]) THEN values[i] ELSE maxVal)

max(values) == IF Len(values) = 0 THEN I(0) ELSE MaxFrom(values, 2, values[1])

\* the function names the switch of evaluateFunction dispatches
registry ==
    {Chars(f) : f \in {"sin", "cos", "tan", "asin", "acos", "atan", "sinh", "cosh", "tanh",
                       "sqrt", "cbrt", "log", "log10", "exp", "abs", "pow", "min", "max",
                       "round", "floor", "ceil"}}

\* the switch of evaluateFunction on the evaluated arguments
Dispatch(name, argValues, mode) ==
    CASE name \in {Chars(f) : f \in {"sin", "cos", "tan", "asin", "acos", "atan",
                                     "sinh", "cosh", "tanh"}} ->
            IF Len(argValues) # 1 THEN Err("function expects 1 argument")
            ELSE evaluateTrigFunction(name, argValues[1], mode)
      [] name \in {Chars(f) : f \in {"sqrt", "cbrt", "log", "log10", "exp", "abs"}} ->
            IF Len(argValues) # 1 THEN Err("function expects 1 argument")
            ELSE evaluateMathFunction(name, argValues[1])
      [] name = Chars("pow") ->
            IF Len(argValues) # 2 THEN Err("pow expects 2 arguments")
            ELSE Ok(Power(argValues[1], argValues[2]))
      [] name = Chars("min") ->
            IF Len(argValues) < 1 THEN Err("min expects at least 1 argument")
            ELSE Ok(min(argValues))
      [] name = Chars("max") ->
            IF Len(argValues) < 1 THEN Err("max expects at least 1 argument")
            ELSE Ok(max(argValues))
      [] name \in {Chars(f) : f \in {"round", "floor", "ceil"}} ->
            IF Len(argValues) = 1 THEN evaluateRounding(name, argValues[1], 0)
            ELSE IF Len(argValues) = 2
            THEN evaluateRounding(name, argValues[1],
                                  TruncDiv(argValues[2].n, argValues[2].d))
            ELSE Err("expects 1 or 2 arguments")
      [] OTHER -> Err("unknown function")

\* a result with the state it leaves
Res(r, st) == [ok |-> r.ok, val |-> r.val, err |-> r.err, st |-> st]

SetLastResult(st, value) == [st EXCEPT !.lastResult = value]

RECURSIVE EvaluateExpression(_, _)
RECURSIVE EvalArgs(_, _, _, _)
RECURSIVE processFunctions(_, _)

\* the loop of evaluateFunction that evaluates the arguments in order
EvalArgs(args, i, argValues, st) ==
    IF i > Len(args) THEN [ok |-> TRUE, vals |-> argValues, err |-> "", st |-> st]
    ELSE LET Evaluated(r) ==
                 IF ~r.ok
                 THEN [ok |-> FALSE, vals |-> <<>>,
                       err |-> IF r.err = NeverReturns THEN NeverReturns
                               ELSE "error in function argument",
                       st |-> r.st]
                 ELSE EvalArgs(args, i + 1, Append(argValues, r.val), r.st)
         IN  Evaluated(EvaluateExpression(args[i], st))

evaluateFunction(name, argsStr, st) ==
    LET Dispatched(a) ==
            IF ~a.ok THEN Res(Err(a.err), a.st)
            ELSE Res(Dispatch(name, a.vals, a.st.angleMode), a.st)
    IN  Dispatched(EvalArgs(parseArguments(argsStr), 1, <<>>, st))

\* the text with every call replaced by its value, leftmost first
processFunctions(expr, st) ==
    LET Replaced(matches, r) ==
            IF ~r.ok THEN [ok |-> FALSE, text |-> <<>>, err |-> r.err, st |-> r.st]
            ELSE processFunctions(ReplaceFirst(expr, matches.whole, Format10(r.val)), r.st)
        Matched(matches) ==
            IF ~matches.found THEN [ok |-> TRUE, text |-> expr, err |-> "", st |-> st]
            ELSE Replaced(matches, evaluateFunction(matches.name, matches.args, st))
    IN  Matched(FindFunc(expr))

\* the text after the constants and the variables are substituted
substituted(expr, st) ==
    LET Constants(text, table) == SubstituteAll(text, DOMAIN table, table)
    IN  SubstituteAll(Constants(ToLower(RemoveSpaces(expr)), constants(st.ans)),
                      DOMAIN st.variables, st.variables)

preprocess(expr, st) == processFunctions(substituted(expr, st), st)

EvaluateExpression(expr, st) ==
    LET Recorded(result, st2) ==
            IF ~result.ok THEN Res(result, st2)
            ELSE Res(result, [SetLastResult(st2, result.val) EXCEPT
                                 !.history = AddToHistory(st2.history, expr, result.val)])
        Processed(processed) ==
            IF ~processed.ok THEN Res(Err(processed.err), processed.st)
            ELSE Recorded(evaluate(processed.text), processed.st)
        Validated(err) ==
            IF err # "" THEN Res(Err(err), st)
            ELSE Processed(preprocess(expr, [st EXCEPT !.ans = st.lastResult]))
    IN  IF expr = <<>> THEN Res(Err("empty expression"), st)
        ELSE Validated(ValidateExpression(expr))

-----------------------------------------------------------------------------
(* The state machine.  out records the last call: the operation, its text    *)
(* argument, whether it succeeded, the value and the error it returned.      *)

Call(op, arg, ok, val, err) == [op |-> op, arg |-> arg, ok |-> ok, val |-> val, err |-> err]

EmptyTable == [name \in {} |-> I(0)]

\* main.go: the commands of the shell, by exact word and by prefix
commandHandlers ==
    {Chars(w) : w \in {"exit", "quit", "help", "clear", "history", "mem", "settings",
                       "mode", "config", "clearhist", "version", "license", "examples",
                       "units", "stats"}}

specialHandlers == {Chars(w) : w \in {"save", "load", "set", "deg", "rad", "precision"}}

\* the goroutines that call the Calculator concurrently
MaxGoroutines == 3

Goroutines == 1..MaxGoroutines

\* sync.RWMutex: the goroutine holding the write lock (0: none) and the
\* goroutines holding read locks
Unlocked == [writer |-> 0, readers |-> {}]

\* a goroutine: the method it runs, its argument, its position in the method
\* and the value it has loaded from the field
Idle == [op |-> "", arg |-> I(0), pc |-> "idle", tmp |-> I(0)]

\* main.go: the Config of NewCalculatorApp
NewConfig == [AngleMode |-> "rad"]

\* NewCalculator and NewParser
Init ==
    /\ memory = I(0)
    /\ lastResult = I(0)
    /\ history = <<>>
    /\ variables = EmptyTable
    /\ ans = I(0)
    /\ angleMode = "rad"
    /\ out = Call("new", <<>>, TRUE, I(0), "")
    /\ mu = Unlocked
    /\ goroutines = [g \in Goroutines |-> Idle]
    /\ config = NewConfig

\* Parser.EvaluateExpression(expr) on the state; a call that never returns
\* stays inside the evaluation ("hang") with what it wrote before
Evaluate(expr) ==
    LET Returned(r) ==
            /\ lastResult' = r.st.lastResult
            /\ history' = r.st.history
            /\ ans' = r.st.ans
            /\ out' = IF r.err = NeverReturns THEN Call("hang", expr, FALSE, I(0), "")
                      ELSE Call("eval", expr, r.ok, r.val, r.err)
            /\ UNCHANGED <<mu, goroutines, memory, variables, angleMode, config>>
    IN  Returned(EvaluateExpression(expr, [lastResult |-> lastResult, history |-> history,
                                           ans |-> ans, variables |-> variables,
                                           angleMode |-> angleMode]))

\* Parser.SetVariable(name, value)
SetVariable(name, value) ==
    /\ IF ~IsValidVariableName(name)
       THEN /\ out' = Call("set", name, FALSE, value, "invalid variable name")
            /\ UNCHANGED variables
       ELSE /\ variables' = [n \in DOMAIN variables \cup {name} |->
                                IF n = name THEN value ELSE variables[n]]
            /\ out' = Call("set", name, TRUE, value, "")
    /\ UNCHANGED <<mu, goroutines, memory, lastResult, history, ans, angleMode, config>>

\* Parser.GetVariable(name): the value, the zero value of a missing key, and
\* whether the key exists
GetVariable(name) ==
    /\ out' = IF name \in DOMAIN variables
              THEN Call("get", name, TRUE, variables[name], "")
              ELSE Call("get", name, FALSE, I(0), "")
    /\ UNCHANGED <<mu, goroutines, memory, lastResult, history, variables, ans, angleMode, config>>

\* Parser.ClearVariables()
ClearVariables ==
    /\ variables' = EmptyTable
    /\ out' = Call("clearvars", <<>>, TRUE, I(0), "")
    /\ UNCHANGED <<mu, goroutines, memory, lastResult, history, ans, angleMode, config>>

\* (a variant that resets lastResult as well comes first)
ClearHistoryAndResult ==
    /\ history' = <<>>
    /\ lastResult' = I(0)
    /\ out' = Call("clearhist", <<>>, TRUE, I(0), "")
    /\ UNCHANGED <<mu, goroutines, memory, variables, ans, angleMode, config>>

\* Calculator.ClearHistory()
ClearHistory ==
    /\ history' = <<>>
    /\ out' = Call("clearhist", <<>>, TRUE, I(0), "")
    /\ UNCHANGED <<mu, goroutines, memory, lastResult, variables, ans, angleMode, config>>

\* Calculator.AddToHistory(expression, result), called directly
AddEntry(expression, result) ==
    /\ history' = AddToHistory(history, expression, result)
    /\ out' = Call("add", expression, TRUE, result, "")
    /\ UNCHANGED <<mu, goroutines, memory, lastResult, variables, ans, angleMode, config>>

\* the methods that take the write lock, and the one that takes the read lock
memoryWriters == {"SetMemory", "AddToMemory", "SubtractFromMemory", "ClearMemory"}

memoryReaders == {"GetMemory"}

\* c.mu.Lock() returns once no goroutine holds the lock (a variant that does
\* not wait for a writer comes first)
CanLockBesideWriter(m) == m.readers = {}

CanLock(m) == m.writer = 0 /\ m.readers = {}

\* c.mu.RLock() returns once no goroutine holds the write lock
CanRLock(m) == m.writer = 0

\* goroutine g enters a method of the Calculator with its argument
GoCall(g, op, value) ==
    /\ goroutines[g].pc = "idle"
    /\ goroutines' = [goroutines EXCEPT ![g] = [op |-> op, arg |-> value,
                                                pc |-> "called", tmp |-> I(0)]]
    /\ UNCHANGED <<memory, lastResult, history, variables, ans, angleMode, config, out, mu>>

\* c.mu.Lock()
Lock(g) ==
    /\ goroutines[g].pc = "called"
    /\ goroutines[g].op \in memoryWriters
    /\ CanLock(mu)
    /\ mu' = [mu EXCEPT !.writer = g]
    /\ goroutines' = [goroutines EXCEPT ![g].pc = "locked"]
    /\ UNCHANGED <<memory, lastResult, history, variables, ans, angleMode, config, out>>

\* c.mu.RLock()
RLock(g) ==
    /\ goroutines[g].pc = "called"
    /\ goroutines[g].op \in memoryReaders
    /\ CanRLock(mu)
    /\ mu' = [mu EXCEPT !.readers = @ \cup {g}]
    /\ goroutines' = [goroutines EXCEPT ![g].pc = "locked"]
    /\ UNCHANGED <<memory, lastResult, history, variables, ans, angleMode, config, out>>

\* the read of c.memory in c.memory += value, c.memory -= value and
\* return c.memory
Load(g) ==
    /\ goroutines[g].pc = "locked"
    /\ goroutines[g].op \in {"AddToMemory", "SubtractFromMemory", "GetMemory"}
    /\ goroutines' = [goroutines EXCEPT ![g].pc = "loaded", ![g].tmp = memory]
    /\ UNCHANGED <<memory, lastResult, history, variables, ans, angleMode, config, out, mu>>

\* the write of c.memory
Store(g) ==
    /\ \/ /\ goroutines[g].op = "SetMemory"
          /\ goroutines[g].pc = "locked"
          /\ memory' = goroutines[g].arg
       \/ /\ goroutines[g].op = "ClearMemory"
          /\ goroutines[g].pc = "locked"
          /\ memory' = I(0)
       \/ /\ goroutines[g].op = "AddToMemory"
          /\ goroutines[g].pc = "loaded"
          /\ memory' = Add(goroutines[g].tmp, goroutines[g].arg)
       \/ /\ goroutines[g].op = "SubtractFromMemory"
          /\ goroutines[g].pc = "loaded"
          /\ memory' = Subtract(goroutines[g].tmp, goroutines[g].arg)
    /\ goroutines' = [goroutines EXCEPT ![g].pc = "stored"]
    /\ UNCHANGED <<lastResult, history, variables, ans, angleMode, config, out, mu>>

\* the deferred c.mu.Unlock() and the return
Unlock(g) ==
    /\ goroutines[g].pc = "stored"
    /\ mu' = [mu EXCEPT !.writer = 0]
    /\ goroutines' = [goroutines EXCEPT ![g].pc = "done"]
    /\ out' = Call(goroutines[g].op, <<>>, TRUE, goroutines[g].arg, "")
    /\ UNCHANGED <<memory, lastResult, history, variables, ans, angleMode, config>>

\* the deferred c.mu.RUnlock() and the return of the value read
RUnlock(g) ==
    /\ goroutines[g].pc = "loaded"
    /\ goroutines[g].op \in memoryReaders
    /\ mu' = [mu EXCEPT !.readers = @ \ {g}]
    /\ goroutines' = [goroutines EXCEPT ![g].pc = "done"]
    /\ out' = Call(goroutines[g].op, <<>>, TRUE, goroutines[g].tmp, "")
    /\ UNCHANGED <<memory, lastResult, history, variables, ans, angleMode, config>>

\* Calculator.GetLastResult()
GetLastResult == lastResult

\* whether fmt.Sprintf("%.10f", v) is within the values whose digits are held
Renderable(v) == v.k \in {"q", "dec", "inf", "nan"}

UsesAns(expr) == HasWord(ToLower(RemoveSpaces(expr)), Chars("ans"))

-----------------------------------------------------------------------------
(* A calculator session: expressions evaluated one after the other, the      *)
(* history cleared in between.                                               *)

\* the expressions a session submits
Expressions ==
    {Chars(e) : e \in {"2 + 3 * 4", "1/3", "ans", "sqrt(16)",
                       "sqrt(16)+sqrt(-1)", "171!", "1/0", "2 +* 3"}}

\* the most history entries a session reaches before it clears the history
MaxSession == 2

SessionEvaluate ==
    \E expr \in Expressions :
        /\ Len(history) < MaxSession
        /\ UsesAns(expr) => Renderable(lastResult)
        /\ Evaluate(expr)

Next ==
    \/ SessionEvaluate
    \/ ClearHistory

Spec == Init /\ [][Next]_vars

\* C1: an evaluation that returns an error leaves lastResult and the history
\* as they were before the call
C1_FailedEvaluationKeepsState ==
    [][out'.op = "eval" /\ ~out'.ok => lastResult' = lastResult /\ history' = history]_vars

\* C4: a successful evaluation returning r leaves GetLastResult() = r, and
\* the expression "ans" evaluates to the value lastResult had when the call
\* began
C4_AnsIsLastResult ==
    [][out'.op = "eval" =>
          /\ out'.ok => GetLastResult' = out'.val
          /\ out'.arg = Chars("ans") => out'.ok /\ out'.val = lastResult]_vars

-----------------------------------------------------------------------------
(* Variables: assignments, lookups, clearings and the expressions that       *)
(* reference them.                                                           *)

\* the names and the values assigned
Names ==
    {Chars(n) : n \in {"x", "a_b", "2x", "Sin", "ans", "max", "mode", "PI", "E", "Ans"}}

Values == {I(5), I(-3)}

VarExpressions == {Chars(e) : e \in {"x^2 + 3*x + 2", "x", "a_b", "abs(2*x)"}}

\* the most successful evaluations of a session
MaxVarSession == 1

VarEvaluate ==
    \E expr \in VarExpressions : Len(history) < MaxVarSession /\ Evaluate(expr)

VarSet == \E name \in Names, value \in Values : SetVariable(name, value)

VarGet == \E name \in Names : GetVariable(name)

NextVars ==
    \/ VarEvaluate
    \/ VarSet
    \/ VarGet
    \/ ClearVariables

SpecVars == Init /\ [][NextVars]_vars

\* the table after name is assigned value
Assigned(table, name, value) ==
    [n \in DOMAIN table \cup {name} |-> IF n = name THEN value ELSE table[n]]

\* x^2 + 3*x + 2 at an integer x
Polynomial(x) == I(x.n * x.n + 3 * x.n + 2)

\* C5: after SetVariable(name, v) succeeds GetVariable(name) returns (v, true)
\* and an evaluation replaces name by v: the expression name evaluates to v
\* and "x^2 + 3*x + 2" to the polynomial at x; with no variable set, no name
\* is substituted
C5_VariableRoundTrip ==
    [][/\ out'.op = "set" /\ out'.ok =>
            out'.arg \in DOMAIN variables' /\ variables'[out'.arg] = out'.val
       /\ out'.op = "get" /\ out'.arg \in DOMAIN variables =>
            out'.ok /\ out'.val = variables[out'.arg]
       /\ out'.op = "eval" /\ out'.arg \in DOMAIN variables =>
            out'.ok /\ out'.val = variables[out'.arg]
       /\ out'.op = "eval" /\ out'.arg = Chars("x^2 + 3*x + 2")
             /\ Chars("x") \in DOMAIN variables =>
            out'.ok /\ out'.val = Polynomial(variables[Chars("x")])
       /\ out'.op = "eval" /\ DOMAIN variables = {} => ~out'.ok]_vars

\* the reserved keywords: the constants, the function registry, the shell commands
Keywords == DOMAIN constants(I(0)) \cup registry \cup commandHandlers \cup specialHandlers

\* C6: SetVariable fails and leaves the table unchanged when the name is no
\* identifier or is, ignoring case, a reserved keyword; otherwise it stores
\* the value under the name and succeeds
C6_SetVariableRejectsKeywords ==
    [][out'.op = "set" =>
          IF ~MatchesValidIdentifierRegex(out'.arg) \/ ToLower(out'.arg) \in Keywords
          THEN ~out'.ok /\ variables' = variables
          ELSE out'.ok /\ variables' = Assigned(variables, out'.arg, out'.val)]_vars

-----------------------------------------------------------------------------
(* The history at its cap: evaluations that alternate between two entries,   *)
(* entries added directly, clearings.                                        *)

\* the entry added directly
DirectExpression == Chars("m")

DirectEntry == DirectExpression \o <<" ", "=", " ">> \o FormatG6(I(7))

DirectCount(h) == Cardinality({i \in 1..Len(h) : h[i] = DirectEntry})

\* the most direct entries the history holds at a time
MaxDirect == 1

\* direct additions are explored from this far below the cap
DirectWindow == 2

HistEvaluate == Evaluate(Chars("1-ans"))

HistAdd ==
    /\ DirectCount(history) < MaxDirect
    /\ Len(history) >= HistoryCap - DirectWindow
    /\ AddEntry(DirectExpression, I(7))

NextHistory ==
    \/ HistEvaluate
    \/ HistAdd
    \/ ClearHistory

SpecHistory == Init /\ [][NextHistory]_vars

\* a step that appends an entry
Appends == out'.op = "add" \/ (out'.op = "eval" /\ out'.ok)

Newest(h) == h[Len(h)]

\* C3: the history never holds more than 100 entries, and an entry appended
\* to a history of 100 removes exactly the oldest entry and keeps the others
\* in order
C3_HistoryCappedFifo ==
    /\ [](Len(history) <= HistoryCap)
    /\ [][Appends =>
            /\ history' # <<>>
            /\ history' = IF Len(history) = HistoryCap
                          THEN Append(Tail(history), Newest(history'))
                          ELSE Append(history, Newest(history'))]_vars

\* C3: a full history whose oldest entry is the direct entry: every entry
\* before it has been evicted
C3_DirectEntryIsOldest ==
    Len(history) = HistoryCap /\ history[1] = DirectEntry /\ out.op = "eval"

-----------------------------------------------------------------------------
(* Variable names in both letter cases: assignments, lookups and the          *)
(* expressions that consist of the name.                                     *)

CaseNames == {Chars(n) : n \in {"x", "X", "ab", "Ab"}}

\* the most successful evaluations of a session
MaxCaseSession == 1

CaseEvaluate ==
    \E expr \in CaseNames : Len(history) < MaxCaseSession /\ Evaluate(expr)

CaseSet == \E name \in CaseNames, value \in Values : SetVariable(name, value)

CaseGet == \E name \in CaseNames : GetVariable(name)

NextCase ==
    \/ CaseEvaluate
    \/ CaseSet
    \/ CaseGet
    \/ ClearVariables

SpecCase == Init /\ [][NextCase]_vars

\* the names of the table that equal name when the letter case is ignored
StoredAs(name) == {n \in DOMAIN variables : ToLower(n) = ToLower(name)}

StoredValue(name) == variables[CHOOSE n \in StoredAs(name) : TRUE]

\* C17: with a value stored under some letter case of a name, GetVariable of
\* the name in any case returns that value, and so does the evaluation of an
\* expression that references the name in any case
C17_VariableNamesIgnoreCase ==
    [][out'.op \in {"get", "eval"} /\ Cardinality(StoredAs(out'.arg)) = 1 =>
          out'.ok /\ out'.val = StoredValue(out'.arg)]_vars

-----------------------------------------------------------------------------
(* Goroutines calling the memory operations of one Calculator concurrently,  *)
(* one call each.                                                            *)

\* the values stored, added and subtracted
MemoryValues == {I(1), I(2)}

MemoryCall ==
    \E g \in Goroutines, op \in memoryWriters \cup memoryReaders, value \in MemoryValues :
        /\ op \in {"ClearMemory", "GetMemory"} => value = I(1)
        /\ GoCall(g, op, value)

NextMemory ==
    \/ MemoryCall
    \/ \E g \in Goroutines : Lock(g)
    \/ \E g \in Goroutines : RLock(g)
    \/ \E g \in Goroutines : Load(g)
    \/ \E g \in Goroutines : Store(g)
    \/ \E g \in Goroutines : Unlock(g)
    \/ \E g \in Goroutines : RUnlock(g)

SpecMemory == Init /\ [][NextMemory]_vars

\* the goroutines between Lock and Unlock, and between RLock and RUnlock
Writing ==
    {g \in Goroutines : /\ goroutines[g].op \in memoryWriters
                        /\ goroutines[g].pc \in {"locked", "loaded", "stored"}}

Reading ==
    {g \in Goroutines : /\ goroutines[g].op \in memoryReaders
                        /\ goroutines[g].pc \in {"locked", "loaded"}}

\* the sum of the arguments of the AddToMemory calls among the first n
\* goroutines that have written
RECURSIVE AddedBy(_)
AddedBy(n) ==
    IF n = 0 THEN I(0)
    ELSE IF /\ goroutines[n].op = "AddToMemory"
            /\ goroutines[n].pc \in {"stored", "done"}
         THEN Add(AddedBy(n - 1), goroutines[n].arg)
         ELSE AddedBy(n - 1)

OnlyAdders == \A g \in Goroutines : goroutines[g].op \in {"", "AddToMemory", "GetMemory"}

\* C15: at most one goroutine is inside a writing method and none is inside
\* GetMemory while one is; the value a goroutine has read is still the
\* memory until it writes or returns; and with AddToMemory the only writer,
\* memory is its initial value 0 plus the arguments of the calls that have
\* written
C15_MemoryOperationsSerialized ==
    /\ Cardinality(Writing) <= 1
    /\ Writing # {} => Reading = {}
    /\ \A g \in Goroutines : goroutines[g].pc = "loaded" => goroutines[g].tmp = memory
    /\ OnlyAdders => memory = AddedBy(MaxGoroutines)

\* C15 witness: every goroutine has returned from AddToMemory(2)
C15_AllAddsReturned ==
    /\ \A g \in Goroutines :
           /\ goroutines[g].op = "AddToMemory"
           /\ goroutines[g].arg = I(2)
           /\ goroutines[g].pc = "done"
    /\ memory = I(2 * MaxGoroutines)

-----------------------------------------------------------------------------
(* Single evaluations on a fresh calculator: the expression is drawn at      *)
(* construction and evaluated once.                                          *)

\* the text joined from its parts
RECURSIVE Join(_)
Join(parts) == IF parts = <<>> THEN <<>> ELSE Chars(Head(parts)) \o Join(Tail(parts))

\* numeric literals of the arithmetic expressions
Literals == {"8", "02", "0.5"}

BinaryOperators == {"+", "-", "*", "/"}

\* expressions of two and of three operands, plain and parenthesised either way
ArithExprs ==
    {Join(<<a, o, b>>) : a \in Literals, o \in BinaryOperators, b \in Literals}
    \cup {Join(<<a, o, b, q, c>>) :
            a \in Literals, o \in BinaryOperators, b \in Literals,
            q \in BinaryOperators, c \in {"8", "02"}}
    \cup {Join(<<"(", a, o, "8", ")", q, c>>) :
            a \in Literals, o \in BinaryOperators, q \in BinaryOperators, c \in Literals}
    \cup {Join(<<a, o, "(", "8", q, c, ")">>) :
            a \in Literals, o \in BinaryOperators, q \in BinaryOperators, c \in Literals}
    \cup {Chars("2 + 3 * 4"), Chars("(2 + 3) * 4")}

\* an operand of a power or a factorial: its text and the value it denotes
Operand(text, value) == [text |-> Chars(text), value |-> value]

PowerOperands ==
    {Operand("0", I(0)), Operand("2", I(2)), Operand("3", I(3)), Operand("0.5", Q(1, 2)),
     Operand("(0-1)", I(-1)), Operand("(0-8)", I(-8)), Operand("(0-0.5)", Q(-1, 2))}

PowerExpr(base, exponent) == base.text \o <<"^">> \o exponent.text

PowerExprs == {PowerExpr(b, e) : b \in PowerOperands, e \in PowerOperands}

FactorialOperands ==
    {Operand("0", I(0)), Operand("1", I(1)), Operand("5", I(5)), Operand("12", I(12)),
     Operand("13", I(13)), Operand("170", I(170)), Operand("171", I(171)),
     Operand("200", I(200)), Operand("2.5", Q(5, 2)), Operand("(0-3)", I(-3))}

FactorialExpr(operand) == operand.text \o <<"!">>

FactorialExprs == {FactorialExpr(n) : n \in FactorialOperands}

\* one call of each function of the registry, with arguments of its domain
RegistryCalls ==
    {Chars(e) : e \in {"sin(0)", "cos(0)", "tan(0)", "asin(0)", "acos(1)", "atan(0)",
                       "sinh(0)", "cosh(0)", "tanh(0)", "sqrt(16)", "cbrt(8)", "log(1)",
                       "log10(100)", "exp(0)", "abs(-3)", "pow(2,3)", "min(1,2)",
                       "max(1,2)", "round(3.14159, 2)", "floor(2.5)", "ceil(2.5)"}}

\* calls of names outside the registry
UnknownCalls == {Chars(e) : e \in {"foo(1)", "sine(0)"}}

\* a call inside the argument of a call
NestedOuter == {"sqrt", "abs", "cbrt", "sin", "cos"}

\* the inner calls: their values are exact (sqrt(-16) is an error)
InnerCall(inner, arg) == [inner |-> inner, arg |-> arg]

NestedInner ==
    {InnerCall("sqrt", "16"), InnerCall("sqrt", "64"), InnerCall("sqrt", "-16"),
     InnerCall("abs", "-16"), InnerCall("abs", "16"), InnerCall("abs", "0"),
     InnerCall("cbrt", "64"), InnerCall("cos", "0")}

NestedCall(outer, c) == Join(<<outer, "(", c.inner, "(", c.arg, ")", ")">>)

NestedCalls == {NestedCall(f, c) : f \in NestedOuter, c \in NestedInner}

\* a sub-expression, the factorial marks after it and the text after the marks
FactorialMark(base, marks, rest) == [base |-> base, marks |-> marks, rest |-> Chars(rest)]

MarkBases == {Operand("2", I(2)), Operand("3", I(3)), Operand("1+2", I(3))}

MaxMarks == 2

\* the texts after the marks: none, an addend, a division by a zero difference
MarkRests == {"", "+2", "/(1-1)"}

\* the marked expressions in which every Factorial is applied to a finite value
FactorialMarks ==
    {FactorialMark(b, k, "") : b \in MarkBases, k \in 1..MaxMarks}
    \cup {FactorialMark(b, 1, "+2") : b \in MarkBases}
    \cup {FactorialMark(Operand("2", I(2)), k, r) : k \in 1..MaxMarks, r \in MarkRests}

MarkExpr(m) == m.base.text \o [i \in 1..m.marks |-> "!"] \o m.rest

FactorialMarkExprs == {MarkExpr(m) : m \in FactorialMarks}

\* left operands, and right operands that evaluate to zero: a literal, a
\* difference, a product and a function value
Dividends == {"5", "(2+3)", "2!"}

ZeroDivisors == {"0", "0.0", "(1-1)", "(0*8)", "sin(0)"}

ZeroDivisorExprs ==
    {Join(<<a, o, z>>) : a \in Dividends, o \in {"/", "%"}, z \in ZeroDivisors}

\* signed expressions and the values they denote: a sign first, after a sign,
\* after an operator and after an opening parenthesis
SignedExprs ==
    {Operand("-5", I(-5)), Operand("+5", I(5)), Operand("--5", I(5)),
     Operand("+-3", I(-3)), Operand("-+3", I(-3)), Operand("2*-3", I(-6)),
     Operand("2+-3", I(-1)), Operand("2--3", I(5)), Operand("8/-2", I(-4)),
     Operand("(-3)", I(-3)), Operand("(+3)", I(3)), Operand("-(2+3)", I(-5)),
     Operand("2*(-3)", I(-6))}

\* every pair of operator characters between two operands: adjacent, adjacent
\* with spaces around the pair, and separated by a space
OperatorPairExprs ==
    UNION {{Join(<<"2", a, b, "3">>), Join(<<"2 ", a, b, " 3">>), Join(<<"2", a, " ", b, "3">>)} :
              a \in OperatorChars, b \in OperatorChars}

MaxParenLen == 4

\* every text of parentheses, an operand and an operator up to MaxParenLen
ParenExprs == UNION {[1..n -> {"(", ")", "2", "+"}] : n \in 1..MaxParenLen}

\* chains of three operands and two binary operators, with or without a
\* leading minus: -a op1 b op2 c
Chains ==
    [neg : BOOLEAN, a : {"8", "2"}, op1 : DOMAIN ops, b : {"3"}, op2 : DOMAIN ops, c : {"2"}]

ChainExpr(c) == Join(<<IF c.neg THEN "-" ELSE "", c.a, c.op1, c.b, c.op2, c.c>>)

NegatedPower == Chars("-2^2")

\* numeric literals with their values, plain and in scientific notation
WellFormedLiterals ==
    {Operand("12", I(12)), Operand("0.5", Q(1, 2)), Operand("1e5", I(100000)),
     Operand("1.5e3", I(1500)), Operand("1e+5", I(100000)), Operand("1e-5", Q(1, 100000)),
     Operand("2.5e-1", Q(1, 4))}

\* literals with two decimal points, and with an exponent part that has no
\* digits, a fraction or a second exponent
MalformedLiterals == {Chars(l) : l \in {"1.2.3", "1..2", "2e", "2e+", "1e5.5", "1e5e5"}}

\* factorials of factorials, alone, after an addend and inside an argument
RepeatedFactorials ==
    {Chars(e) : e \in {"4!!", "18!!", "19!!", "171!!", "3!+22", "abs(171!!)",
                       "sqrt(16)+171!!"}}

\* a call followed by a parenthesised operand
CallsThenParenthesis == {Chars(e) : e \in {"abs(2)(3)", "abs(171!)(2)"}}

\* the deepest nesting of the inputs
MaxNesting == 20

\* 2 under n factorial marks: evaluate and evaluateWithFactorial nest n deep
DeepFactorial(n) == <<"2">> \o [i \in 1..n |-> "!"]

EvalInputs ==
    ArithExprs \cup PowerExprs \cup FactorialExprs \cup RegistryCalls
    \cup UnknownCalls \cup NestedCalls \cup FactorialMarkExprs \cup ZeroDivisorExprs
    \cup {e.text : e \in SignedExprs} \cup OperatorPairExprs \cup ParenExprs
    \cup {ChainExpr(c) : c \in Chains} \cup {NegatedPower}
    \cup {l.text : l \in WellFormedLiterals} \cup MalformedLiterals
    \cup RepeatedFactorials \cup CallsThenParenthesis
    \cup {DeepFactorial(MaxNesting)}

InitEval ==
    /\ memory = I(0)
    /\ lastResult = I(0)
    /\ history = <<>>
    /\ variables = EmptyTable
    /\ ans = I(0)
    /\ angleMode = "rad"
    /\ mu = Unlocked
    /\ goroutines = [g \in Goroutines |-> Idle]
    /\ config = NewConfig
    /\ \E expr \in EvalInputs : out = Call("input", expr, TRUE, I(0), "")

EvalInput == out.op = "input" /\ Evaluate(out.arg)

NextEval == EvalInput

SpecEval == InitEval /\ [][NextEval]_vars

-----------------------------------------------------------------------------
(* Standard arithmetic, by recursive descent on the grammar: an expression   *)
(* is terms joined by + and -, a term is factors joined by * and /, a factor *)
(* is a literal or a parenthesised expression.  Values are exact fractions;  *)
(* def is FALSE once a division by zero occurs.                              *)

RefValue(n, d) == [def |-> TRUE, n |-> n, d |-> d]

RefUndefined == [def |-> FALSE, n |-> 0, d |-> 1]

RefApply(op, a, b) ==
    IF ~a.def \/ ~b.def THEN RefUndefined
    ELSE CASE op = "+" -> RefValue(a.n * b.d + b.n * a.d, a.d * b.d)
           [] op = "-" -> RefValue(a.n * b.d - b.n * a.d, a.d * b.d)
           [] op = "*" -> RefValue(a.n * b.n, a.d * b.d)
           [] op = "/" -> IF b.n = 0 THEN RefUndefined ELSE RefValue(a.n * b.d, a.d * b.n)

RECURSIVE RefLiteralEnd(_, _)
RefLiteralEnd(s, i) ==
    IF i <= Len(s) /\ s[i] \in Digits \cup {"."} THEN RefLiteralEnd(s, i + 1) ELSE i

RECURSIVE RefLiteral(_, _, _)
\* the fraction a literal denotes: n over d so far, scale 0 before the point
RefLiteral(text, n, d) ==
    IF text = <<>> THEN RefValue(n, IF d = 0 THEN 1 ELSE d)
    ELSE IF Head(text) = "." THEN RefLiteral(Tail(text), n, 1)
    ELSE RefLiteral(Tail(text), n * 10 + DigitVal(Head(text)), d * 10)

RefAt(v, pos) == [v |-> v, pos |-> pos]

RECURSIVE RefExpr(_, _)
RECURSIVE RefExprRest(_, _)
RECURSIVE RefTerm(_, _)
RECURSIVE RefTermRest(_, _)
RECURSIVE RefFactor(_, _)

RefFactor(s, i) ==
    IF s[i] = "("
    THEN LET Closed(r) == RefAt(r.v, r.pos + 1) IN Closed(RefExpr(s, i + 1))
    ELSE LET Literal(j) == RefAt(RefLiteral(SubSeq(s, i, j - 1), 0, 0), j)
         IN  Literal(RefLiteralEnd(s, i))

RefTermRest(s, acc) ==
    IF acc.pos <= Len(s) /\ s[acc.pos] \in {"*", "/"}
    THEN LET Factor(f) == RefTermRest(s, RefAt(RefApply(s[acc.pos], acc.v, f.v), f.pos))
         IN  Factor(RefFactor(s, acc.pos + 1))
    ELSE acc

RefTerm(s, i) == RefTermRest(s, RefFactor(s, i))

RefExprRest(s, acc) ==
    IF acc.pos <= Len(s) /\ s[acc.pos] \in {"+", "-"}
    THEN LET Term(t) == RefExprRest(s, RefAt(RefApply(s[acc.pos], acc.v, t.v), t.pos))
         IN  Term(RefTerm(s, acc.pos + 1))
    ELSE acc

RefExpr(s, i) == RefExprRest(s, RefTerm(s, i))

StandardArithmetic(expr) == RefExpr(RemoveSpaces(expr), 1).v

\* C2: every well-formed expression of literals, parentheses and + - * / whose
\* standard value is defined evaluates, without error, to that value: * and /
\* bind tighter than + and -, equal precedence groups left to right,
\* parentheses override
C2_StandardArithmetic ==
    LET Agrees(ref) == ref.def => out.ok /\ out.val = Q(ref.n, ref.d)
    IN  out.op = "eval" /\ out.arg \in ArithExprs => Agrees(StandardArithmetic(out.arg))

\* the function of a registry name applied to one value
Apply1(name, v) == Dispatch(Chars(name), <<v>>, "rad")

\* outer(inner(arg)) composed directly
Composed(outer, c) ==
    LET Outer(r) == IF r.ok THEN Apply1(outer, r.val) ELSE r
    IN  Outer(Apply1(c.inner, ParseFloat(Chars(c.arg)).val))

\* C7: a call inside the argument of another call is evaluated innermost
\* first: where the composition is defined the evaluation succeeds and, where
\* the composed value is exact, returns it
C7_NestedCallsCompose ==
    LET Returns(r) == r.ok => out.ok /\ (r.val.k = "q" => out.val = r.val)
    IN  \A f \in NestedOuter, c \in NestedInner :
            out.op = "eval" /\ out.arg = NestedCall(f, c) => Returns(Composed(f, c))

\* the name in front of the first parenthesis of a call
RECURSIVE CalledName(_)
CalledName(expr) ==
    IF expr = <<>> \/ Head(expr) = "(" THEN <<>> ELSE <<Head(expr)>> \o CalledName(Tail(expr))

\* C8: a call of any registry function with arguments of its domain passes
\* ValidateExpression and evaluates, and only a name outside the registry
\* fails as an unknown function
C8_RegistryCallable ==
    out.op = "eval" /\ out.arg \in RegistryCalls \cup UnknownCalls =>
        /\ out.arg \in RegistryCalls => ValidateExpression(out.arg) = "" /\ out.ok
        /\ out.err = "unknown function" => CalledName(out.arg) \notin registry

PowerOutOfDomain(base, exponent) ==
    \/ IsZero(base) /\ ~Less(I(0), exponent)
    \/ Less(base, I(0)) /\ ~IsInt(exponent)

\* C9: base ^ exponent with a zero base and an exponent <= 0, or a negative
\* base and a non-integer exponent, is a domain error, never a number
C9_PowerDomainChecked ==
    \A b \in PowerOperands, e \in PowerOperands :
        out.op = "eval" /\ out.arg = PowerExpr(b, e) /\ PowerOutOfDomain(b.value, e.value)
            => ~out.ok

\* 1 * 2 * ... * n: the integer while it is exact, the float64 nearest beyond
RECURSIVE ProductUpTo(_)
ProductUpTo(n) == IF n <= 1 THEN 1 ELSE n * ProductUpTo(n - 1)

FactorialOutOfDomain(n) ==
    Less(n, I(0)) \/ ~IsInt(n) \/ Less(I(MaxFiniteFactorial), n)

\* C10: n! is an error when n is negative, non-integer or above 170, and the
\* product 1 * 2 * ... * n otherwise
C10_FactorialBounded ==
    \A n \in FactorialOperands :
        out.op = "eval" /\ out.arg = FactorialExpr(n) =>
            IF FactorialOutOfDomain(n.value) THEN ~out.ok
            ELSE /\ out.ok
                 /\ out.val = IF n.value.n <= 12 THEN I(ProductUpTo(n.value.n))
                              ELSE BigFact(n.value.n)

\* (...((n!)!)...)! with k marks, for the small n whose factorials are exact
RECURSIVE IteratedFactorial(_, _)
IteratedFactorial(n, k) == IF k = 0 THEN n ELSE IteratedFactorial(ProductUpTo(n), k - 1)

\* C11: Factorial is applied once per factorial mark, whatever text follows
\* the last mark, and an expression ending in its marks is the iterated
\* factorial of the sub-expression left of them ("3!!" is (3!)! = 720)
C11_FactorialOncePerMark ==
    \A m \in FactorialMarks :
        out.op = "eval" /\ out.arg = MarkExpr(m) =>
            /\ FactorialApplications(out.arg) = m.marks
            /\ m.rest = <<>> =>
                    out.ok /\ out.val = I(IteratedFactorial(m.base.value.n, m.marks))

\* the errors that name a division or a modulus by zero
ZeroDivisionErrors == {"division by zero", "modulus by zero", "potential division by zero"}

\* C12: a division or a modulus whose right operand evaluates to zero is an
\* error naming the division (or modulus) by zero, never a number
C12_ZeroDivisorIsError ==
    out.op = "eval" /\ out.arg \in ZeroDivisorExprs =>
        ~out.ok /\ out.err \in ZeroDivisionErrors

\* C13: a sign that is the first token or follows an operator, a sign or an
\* opening parenthesis is unary, and the signed expression evaluates to the
\* value it denotes ("--5" = 5, "+-3" = -3, "2*-3" = -6, "(-3)" = -3)
C13_UnarySigns ==
    \A e \in SignedExprs :
        out.op = "eval" /\ out.arg = e.text => out.ok /\ out.val = e.value

\* the parentheses of a text are unbalanced: more ")" than "(" in some prefix,
\* or not as many in the whole text
Unbalanced(expr) ==
    \/ \E n \in 1..Len(expr) :
           CountChar(SubSeq(expr, 1, n), ")") > CountChar(SubSeq(expr, 1, n), "(")
    \/ CountChar(expr, ")") # CountChar(expr, "(")

Signs == {"+", "-"}

\* two adjacent operator characters other than a sign after a sign
IllegalPairs == (OperatorChars \X OperatorChars) \ (Signs \X Signs)

HasIllegalPair(expr) ==
    \E i \in 1..(Len(expr) - 1) : <<expr[i], expr[i + 1]>> \in IllegalPairs

\* C14: an expression is rejected for its operators exactly when it holds two
\* adjacent operator characters that are not a sign after a sign (the
\* parentheses are checked first); every expression with unbalanced
\* parentheses is rejected; "2 +* 3" is rejected and "2 ++ 3" is 5
C14_OperatorPairsAndParentheses ==
    out.op = "eval" /\ out.arg \in OperatorPairExprs \cup ParenExprs =>
        /\ out.err = "consecutive operators"
               <=> ~Unbalanced(out.arg) /\ HasIllegalPair(out.arg)
        /\ Unbalanced(out.arg) => ~out.ok /\ out.err = "unbalanced parentheses"
        /\ out.arg = Chars("2 +* 3") => ~out.ok
        /\ out.arg = Chars("2 ++ 3") => out.ok /\ out.val = I(5)

\* C14 witness: "2 +* 3" has been rejected for its operators
C14_IllegalPairRejected ==
    /\ out.op = "eval"
    /\ out.arg = Chars("2 +* 3")
    /\ out.err = "consecutive operators"

\* C16: a successful evaluation adds one entry at the end of GetHistory,
\* after the entries returned before, and the entry carries the expression
\* evaluated and its result
C16_HistoryEntryPerEvaluation ==
    [][out'.op = "eval" /\ out'.ok /\ Len(history) < HistoryCap =>
          GetHistory(history') =
              Append(GetHistory(history), [Expression |-> out'.arg, Result |-> out'.val])]_vars

\* the levels of the binary operators: + - below * / % below ^
Level(o) == CASE o \in {"+", "-"} -> 1 [] o \in {"*", "/", "%"} -> 2 [] o = "^" -> 3

\* a chain groups to the left unless its second operator is of a higher level
GroupsLeft(c) == Level(c.op1) >= Level(c.op2)

\* the postfix order of a chain: the minus applies to the first operand alone
ChainPostfix(c) ==
    (IF c.neg THEN <<Chars(c.a), unaryMinus>> ELSE <<Chars(c.a)>>)
    \o (IF GroupsLeft(c)
        THEN <<Chars(c.b), <<c.op1>>, Chars(c.c), <<c.op2>>>>
        ELSE <<Chars(c.b), Chars(c.c), <<c.op2>>, <<c.op1>>>>)

\* the value of a chain under that grouping
ChainValue(c) ==
    LET First == IF c.neg THEN Neg(ParseFloat(Chars(c.a)).val) ELSE ParseFloat(Chars(c.a)).val
        B == ParseFloat(Chars(c.b)).val
        C == ParseFloat(Chars(c.c)).val
        Then(r, o, right) == ApplyOperator(<<o>>, r.val, right).val
    IN  IF GroupsLeft(c)
        THEN Then(ApplyOperator(<<c.op1>>, First, B), c.op2, C)
        ELSE ApplyOperator(<<c.op1>>, First, ApplyOperator(<<c.op2>>, B, C).val).val

\* C18: the postfix order of shuntingYard follows the precedence unary minus
\* over ^ over * / % over + -, every binary operator groups to the left,
\* and the expression has the value of that grouping ("2^3^2" = 64,
\* "8-3-2" = 3, "-2^2" = 4)
C18_PrecedenceAndLeftAssociativity ==
    /\ \A c \in Chains :
           out.op = "eval" /\ out.arg = ChainExpr(c) =>
               /\ shuntingYard(processUnaryOperators(tokenize(out.arg))).rpn = ChainPostfix(c)
               /\ out.ok /\ out.val = ChainValue(c)
               /\ out.arg = Chars("2^3^2") => out.val = I(64)
               /\ out.arg = Chars("8-3-2") => out.val = I(3)
               /\ out.arg = Chars("-2^3^2") => out.val = I(64)
    /\ out.op = "eval" /\ out.arg = NegatedPower =>
           /\ shuntingYard(processUnaryOperators(tokenize(out.arg))).rpn
                  = <<Chars("2"), unaryMinus, Chars("2"), <<"^">>>>
           /\ out.ok /\ out.val = I(4)

\* C18 witness: "2^3^2" has been evaluated as (2^3)^2
C18_PowerGroupsLeft ==
    out.op = "eval" /\ out.arg = Chars("2^3^2") /\ out.ok /\ out.val = I(64)

\* C20: ValidateExpression rejects a literal with more than one decimal
\* point or a malformed exponent part, and a literal it accepts is one
\* number token and evaluates to its value ("1e-5" included)
C20_LiteralsValidatedAndTokenized ==
    /\ out.op = "eval" /\ out.arg \in MalformedLiterals => ValidateExpression(out.arg) # ""
    /\ \A l \in WellFormedLiterals :
           out.op = "eval" /\ out.arg = l.text /\ ValidateExpression(out.arg) = "" =>
               /\ Len(tokenize(out.arg)) = 1
               /\ isNumber(tokenize(out.arg)[1])
               /\ out.ok /\ out.val = l.value

\* the text after the first occurrence of old in s
AfterFirst(s, old) ==
    LET At(i) == SubSeq(s, i + Len(old), Len(s))
    IN  At(CHOOSE a \in 1..(Len(s) + 1) :
               HasPrefixAt(s, a, old) /\ \A b \in 1..(a - 1) : ~HasPrefixAt(s, b, old))

\* the number of call sites of a text: the matches of funcRegex, left to right
RECURSIVE CallSites(_)
CallSites(s) ==
    IF ~FindFunc(s).found THEN 0 ELSE 1 + CallSites(AfterFirst(s, FindFunc(s).whole))

\* the first iteration of processFunctions on a text either fails or
\* leaves fewer call sites, and its arguments are shorter than the text
FirstIterationShrinks(text, st) ==
    LET Iteration(m, r) ==
            /\ \A i \in 1..Len(parseArguments(m.args)) :
                   Len(parseArguments(m.args)[i]) < Len(text)
            /\ r.ok => CallSites(ReplaceFirst(text, m.whole, Format10(r.val)))
                           < CallSites(text)
        Matched(m) == m.found => Iteration(m, evaluateFunction(m.name, m.args, st))
    IN  Matched(FindFunc(text))

\* the state of a fresh calculator, as the evaluations of SpecEval find it
FreshState ==
    [lastResult |-> I(0), history |-> <<>>, ans |-> I(0), variables |-> EmptyTable,
     angleMode |-> "rad"]

\* C21: every evaluation returns, and every first iteration of the function
\* resolution fails or leaves fewer call sites, recursing on shorter texts
C21_EvaluationTerminates ==
    /\ out.op # "hang"
    /\ out.op = "eval" /\ ValidateExpression(out.arg) = "" =>
           FirstIterationShrinks(substituted(out.arg, FreshState), FreshState)

\* C22: an evaluation whose factorial rule recurses MaxNesting deep
\* fails with "expression too deeply nested"
C22_NestingLimited ==
    out.op = "eval" /\ out.arg = DeepFactorial(MaxNesting) =>
        ~out.ok /\ out.err = "expression too deeply nested"

-----------------------------------------------------------------------------
(* The mutators of the Calculator called one after the other, between        *)
(* evaluations: each call runs from its Lock to its deferred Unlock.         *)

\* Calculator.SetMemory(value)
SetMemory(value) ==
    /\ memory' = value
    /\ out' = Call("SetMemory", <<>>, TRUE, value, "")
    /\ UNCHANGED <<mu, goroutines, lastResult, history, variables, ans, angleMode, config>>

\* Calculator.AddToMemory(value)
AddToMemory(value) ==
    /\ memory' = Add(memory, value)
    /\ out' = Call("AddToMemory", <<>>, TRUE, value, "")
    /\ UNCHANGED <<mu, goroutines, lastResult, history, variables, ans, angleMode, config>>

\* Calculator.SubtractFromMemory(value)
SubtractFromMemory(value) ==
    /\ memory' = Subtract(memory, value)
    /\ out' = Call("SubtractFromMemory", <<>>, TRUE, value, "")
    /\ UNCHANGED <<mu, goroutines, lastResult, history, variables, ans, angleMode, config>>

\* Calculator.ClearMemory()
ClearMemory ==
    /\ memory' = I(0)
    /\ out' = Call("ClearMemory", <<>>, TRUE, I(0), "")
    /\ UNCHANGED <<mu, goroutines, lastResult, history, variables, ans, angleMode, config>>

\* Calculator.SetLastResult(value), called directly
StoreLastResult(value) ==
    /\ lastResult' = value
    /\ out' = Call("SetLastResult", <<>>, TRUE, value, "")
    /\ UNCHANGED <<mu, goroutines, memory, history, variables, ans, angleMode, config>>

\* the expressions evaluated between the calls: with and without function
\* calls and a variable, succeeding and failing
FrameExpressions ==
    {Chars(e) : e \in {"2 + 3", "sqrt(16)", "x + 1", "1/0", "2 +* 3",
                       "sqrt(16)+sqrt(-1)"}}

\* the most history entries before the history is cleared
MaxFrameSession == 1

\* the largest magnitude the memory register is driven to
MaxFrameMemory == 1

FrameEvaluate ==
    \E expr \in FrameExpressions :
        /\ Len(history) < MaxFrameSession
        /\ UsesAns(expr) => Renderable(lastResult)
        /\ Evaluate(expr)

FrameSetMemory == \E value \in MemoryValues : SetMemory(value)

FrameAddToMemory ==
    \E value \in MemoryValues :
        /\ Less(memory, I(MaxFrameMemory))
        /\ AddToMemory(value)

FrameSubtractFromMemory ==
    \E value \in MemoryValues :
        /\ Less(I(0 - MaxFrameMemory), memory)
        /\ SubtractFromMemory(value)

FrameSetLastResult == \E value \in MemoryValues : StoreLastResult(value)

FrameSetVariable == SetVariable(Chars("x"), I(3))

NextFrame ==
    \/ FrameEvaluate
    \/ FrameSetMemory
    \/ FrameAddToMemory
    \/ FrameSubtractFromMemory
    \/ ClearMemory
    \/ FrameSetLastResult
    \/ ClearHistory
    \/ FrameSetVariable

SpecFrame == Init /\ [][NextFrame]_vars

\* C23: SetMemory, AddToMemory, SubtractFromMemory and ClearMemory change
\* the memory only, ClearHistory the history only, SetLastResult lastResult
\* only, and an evaluation, successful or not, leaves the memory and the
\* variable table as they were
C23_FrameConditions ==
    [][/\ out'.op \in memoryWriters =>
              UNCHANGED <<lastResult, history, variables, ans, angleMode, config>>
       /\ out'.op = "clearhist" =>
              UNCHANGED <<memory, lastResult, variables, ans, angleMode, config>>
       /\ out'.op = "SetLastResult" =>
              UNCHANGED <<memory, history, variables, ans, angleMode, config>>
       /\ out'.op \in {"eval", "hang"} => UNCHANGED <<memory, variables>>]_vars

\* C23: an evaluation has failed beside a memory register, a last result, a
\* history and a variable table that all hold something
C23_FailedBesideFullState ==
    /\ out.op = "eval"
    /\ ~out.ok
    /\ memory # I(0)
    /\ lastResult # I(0)
    /\ history # <<>>
    /\ DOMAIN variables # {}

\* C24: a successful evaluation appends to the history the one entry of its
\* own expression and result, however many calls the expression holds
C24_OneEntryPerTopLevelEvaluation ==
    [][out'.op = "eval" /\ out'.ok =>
          history' = AddToHistory(history, out'.arg, out'.val)]_vars

-----------------------------------------------------------------------------
(* Goroutines that run Parser.EvaluateExpression on one Parser and one       *)
(* Calculator.  SetLastResult and AddToHistory each run from their Lock to   *)
(* their deferred Unlock in one step; the Parser holds no lock of its own.   *)

\* the expressions the goroutines evaluate: no call sites, so that the state
\* is written by the commit at the end of EvaluateExpression only
CommitExpressions == {Chars(e) : e \in {"1+1", "2*3", "1/0"}}

\* goroutine g enters EvaluateExpression(expr)
GoEvaluate(g, expr) ==
    /\ out.op # "fatal"
    /\ goroutines[g].pc = "idle"
    /\ goroutines' = [goroutines EXCEPT ![g] = [op |-> "EvaluateExpression", arg |-> expr,
                                                pc |-> "called", tmp |-> I(0)]]
    /\ UNCHANGED <<memory, lastResult, history, variables, ans, angleMode, config, out, mu>>

\* the goroutines inside EvaluateExpression that have not yet evaluated
Preparing ==
    {g \in Goroutines : goroutines[g].op = "EvaluateExpression" /\ goroutines[g].pc = "called"}

\* what EvaluateExpression computes before its commit
Prepared(expr) ==
    LET Processed(p) == IF ~p.ok THEN Err(p.err) ELSE evaluate(p.text)
        Validated(err) ==
            IF err # "" THEN Err(err)
            ELSE Processed(preprocess(expr, [lastResult |-> lastResult, history |-> history,
                                             ans |-> lastResult, variables |-> variables,
                                             angleMode |-> angleMode]))
    IN  Validated(ValidateExpression(expr))

\* the validation, p.constants["ans"] = p.calc.GetLastResult(), preprocess
\* and evaluate of goroutine g; an error returns at once
Prepare(g) ==
    LET Returned(r) ==
            /\ goroutines' = [goroutines EXCEPT ![g].pc = IF r.ok THEN "evaluated" ELSE "done",
                                                ![g].tmp = r.val]
            /\ out' = IF r.ok THEN out ELSE Call("eval", goroutines[g].arg, FALSE, r.val, r.err)
    IN  /\ g \in Preparing
        /\ CanRLock(mu)
        /\ ans' = lastResult
        /\ Returned(Prepared(goroutines[g].arg))
        /\ UNCHANGED <<memory, lastResult, history, variables, angleMode, config, mu>>

\* two goroutines write the map p.constants without synchronisation: the Go
\* runtime may detect it and end the program ("concurrent map writes")
ConcurrentMapWrites ==
    /\ Cardinality(Preparing) >= 2
    /\ out' = Call("fatal", <<>>, FALSE, I(0), "concurrent map writes")
    /\ goroutines' = [g \in Goroutines |-> [goroutines[g] EXCEPT !.pc = "dead"]]
    /\ UNCHANGED <<memory, lastResult, history, variables, ans, angleMode, config, mu>>

\* p.calc.SetLastResult(result) of goroutine g
CommitLastResult(g) ==
    /\ goroutines[g].op = "EvaluateExpression"
    /\ goroutines[g].pc = "evaluated"
    /\ CanLock(mu)
    /\ lastResult' = goroutines[g].tmp
    /\ goroutines' = [goroutines EXCEPT ![g].pc = "resultSet"]
    /\ UNCHANGED <<memory, history, variables, ans, angleMode, config, out, mu>>

\* p.calc.AddToHistory(expr, result) of goroutine g, and the return
CommitHistory(g) ==
    /\ goroutines[g].op = "EvaluateExpression"
    /\ goroutines[g].pc = "resultSet"
    /\ CanLock(mu)
    /\ history' = AddToHistory(history, goroutines[g].arg, goroutines[g].tmp)
    /\ goroutines' = [goroutines EXCEPT ![g].pc = "done"]
    /\ out' = Call("eval", goroutines[g].arg, TRUE, goroutines[g].tmp, "")
    /\ UNCHANGED <<memory, lastResult, variables, ans, angleMode, config, mu>>

NextCommit ==
    \/ \E g \in Goroutines, expr \in CommitExpressions : GoEvaluate(g, expr)
    \/ \E g \in Goroutines : Prepare(g)
    \/ ConcurrentMapWrites
    \/ \E g \in Goroutines : CommitLastResult(g)
    \/ \E g \in Goroutines : CommitHistory(g)

SpecCommit == Init /\ [][NextCommit]_vars

\* no goroutine is inside EvaluateExpression
NoEvaluationInProgress == \A g \in Goroutines : goroutines[g].pc \in {"idle", "done"}

\* the goroutines whose evaluation wrote the newest history entry
WroteNewest ==
    {g \in Goroutines :
        /\ goroutines[g].op = "EvaluateExpression"
        /\ goroutines[g].pc = "done"
        /\ history # <<>>
        /\ <<Newest(history)>> = AddToHistory(<<>>, goroutines[g].arg, goroutines[g].tmp)}

\* C25: whenever no evaluation is in progress and the history holds an
\* entry, lastResult is the result of the evaluation that wrote the newest
\* entry
C25_CommitIsOneWrite ==
    NoEvaluationInProgress /\ history # <<>> =>
        /\ WroteNewest # {}
        /\ \A g \in WroteNewest : lastResult = goroutines[g].tmp

\* the names an expression references that no variable defines
Undefined(expr) ==
    {n \in {Chars("x"), Chars("a_b")} :
        HasWord(ToLower(RemoveSpaces(expr)), n) /\ n \notin DOMAIN variables}

\* C26: an expression that is valid as typed and references defined
\* variables only is evaluated whatever their values, and "abs(2*x)" with
\* x = -3 evaluates to 6
C26_SubstitutionKeepsValid ==
    out.op = "eval" /\ ValidateExpression(out.arg) = "" /\ Undefined(out.arg) = {} =>
        /\ out.ok
        /\ out.arg = Chars("abs(2*x)") /\ variables[Chars("x")] = I(-3) => out.val = I(6)

-----------------------------------------------------------------------------
(* main.go: the interactive shell.  Each step reads one line and runs the    *)
(* handler mainLoop selects for it.  mode records the angle mode the parser  *)
(* had while the handler evaluated ("" when it evaluated nothing).           *)

ShellCall(op, arg, r, mode) ==
    [op |-> op, arg |-> arg, ok |-> r.ok, val |-> r.val, err |-> r.err, mode |-> mode]

\* the state EvaluateExpression finds when the parser is in angle mode mode
ParserState(mode) ==
    [lastResult |-> lastResult, history |-> history, ans |-> ans, variables |-> variables,
     angleMode |-> mode]

\* app.printError for a line that evaluates nothing
printError(input, message) ==
    /\ out' = ShellCall("printError", input, Err(message), "")
    /\ UNCHANGED <<memory, lastResult, history, variables, ans, angleMode, config, mu, goroutines>>

handleModeToggle ==
    /\ config' = [config EXCEPT !.AngleMode = IF @ = "deg" THEN "rad" ELSE "deg"]
    /\ out' = ShellCall("handleModeToggle", <<>>, Ok(I(0)), "")
    /\ UNCHANGED <<memory, lastResult, history, variables, ans, angleMode, mu, goroutines>>

\* what a handler leaves after EvaluateExpression returned r with the parser
\* in angle mode mode: the Calculator state and the call in out
Evaluated(op, expr, r, mode) ==
    /\ lastResult' = r.st.lastResult
    /\ history' = r.st.history
    /\ ans' = r.st.ans
    /\ out' = ShellCall(op, expr, r, mode)

\* app.parser.SetAngleMode(app.config.AngleMode), then EvaluateExpression
evaluateExpression(expr) ==
    \E r \in {EvaluateExpression(expr, ParserState(config.AngleMode))} :
        /\ angleMode' = config.AngleMode
        /\ Evaluated("evaluateExpression", expr, r, config.AngleMode)
        /\ UNCHANGED <<memory, variables, config, mu, goroutines>>

\* handleSet: strings.SplitN(arg, "=", 2), the name check, EvaluateExpression
\* of the value in the parser's current angle mode, SetVariable
handleSet(arg) ==
    IF \A i \in 1..Len(arg) : arg[i] # "="
    THEN printError(arg, "Usage: set variable=value")
    ELSE \E i \in {j \in 1..Len(arg) : arg[j] = "=" /\ \A h \in 1..(j - 1) : arg[h] # "="} :
         \E variable \in {TrimSpace(SubSeq(arg, 1, i - 1))},
            valueStr \in {TrimSpace(SubSeq(arg, i + 1, Len(arg)))} :
             IF ~IsValidVariableName(variable) THEN printError(arg, "Invalid variable name")
             ELSE \E r \in {EvaluateExpression(valueStr, ParserState(angleMode))} :
                      /\ Evaluated("handleSet", valueStr, r, angleMode)
                      /\ variables' = IF ~r.ok THEN variables
                                      ELSE [n \in DOMAIN variables \cup {variable} |->
                                               IF n = variable THEN r.val ELSE variables[n]]
                      /\ UNCHANGED <<memory, angleMode, config, mu, goroutines>>

\* handleDegrees and handleRadians: SetAngleMode(mode), EvaluateExpression,
\* SetAngleMode(app.config.AngleMode) on the error path and on the success path
handleAngle(op, mode, expr) ==
    \E r \in {EvaluateExpression(expr, ParserState(mode))} :
        /\ Evaluated(op, expr, r, mode)
        /\ angleMode' = config.AngleMode
        /\ UNCHANGED <<memory, variables, config, mu, goroutines>>

handleDegrees(expr) == handleAngle("handleDegrees", "deg", expr)

handleRadians(expr) == handleAngle("handleRadians", "rad", expr)

\* handleCommand for the commands the lines hold
handleCommand(command) ==
    IF command = Chars("mode") THEN handleModeToggle ELSE ClearHistory

\* the prefix of specialHandlers the line starts with, "" if none
SpecialPrefix(input) ==
    IF \E w \in specialHandlers : HasPrefixAt(ToLower(input), 1, w \o <<" ">>)
    THEN (CHOOSE w \in specialHandlers : HasPrefixAt(ToLower(input), 1, w \o <<" ">>)) \o <<" ">>
    ELSE <<>>

\* handleSpecial for the prefixes the lines hold
handleSpecial(input, prefix) ==
    \E arg \in {TrimSpace(SubSeq(input, Len(prefix) + 1, Len(input)))} :
        IF prefix = Chars("set ") THEN handleSet(arg)
        ELSE IF prefix = Chars("deg ") THEN handleDegrees(arg)
        ELSE handleRadians(arg)

\* one turn of mainLoop on the line read
mainLoop(text) ==
    \E input \in {TrimSpace(text)} :
        IF ToLower(input) \in commandHandlers THEN handleCommand(ToLower(input))
        ELSE IF SpecialPrefix(input) # <<>>
        THEN \E prefix \in {SpecialPrefix(input)} : handleSpecial(input, prefix)
        ELSE \E err \in {ValidateExpression(input)} :
                 IF err # "" THEN printError(input, err) ELSE evaluateExpression(input)

\* the lines typed
ShellLines ==
    {Chars(l) : l \in {"mode", "clearhist", "sin(0)", "2+3", "2 +* 3", "deg sin(0)",
                       "deg 2 +* 3", "rad sin(0)", "rad 2 +* 3", "set x=sin(0)",
                       "set x = 2 +* 3", "set 2x=1", "set x"}}

\* the most history entries before the history is cleared
MaxShellSession == 1

ShellInput ==
    \E text \in ShellLines :
        /\ Len(history) < MaxShellSession \/ text = Chars("clearhist")
        /\ mainLoop(text)

NextShell == ShellInput

SpecShell == Init /\ [][NextShell]_vars

\* C27: every evaluation of a plain expression or of the value of a set runs
\* with the parser in the configured angle mode, and a deg or rad evaluation
\* leaves the parser in the configured angle mode, whether it succeeds or not
C27_EvaluationsUseConfiguredMode ==
    [][/\ out'.op \in {"evaluateExpression", "handleSet"} => out'.mode = config.AngleMode
       /\ out'.op \in {"handleDegrees", "handleRadians"} =>
              angleMode' = config'.AngleMode]_vars

\* C28: no name of the variable table equals, when the letter case is
\* ignored, a name of the constant table (pi, e, ans)
C28_NoVariableNamesConstant ==
    \A name \in DOMAIN variables : ToLower(name) \notin DOMAIN constants(ans)

\* C28: the name of a constant in upper case has been refused while the
\* table holds a variable
C28_ConstantNameRefused ==
    /\ out.op = "set"
    /\ out.arg = Chars("PI")
    /\ ~out.ok
    /\ DOMAIN variables # {}

-----------------------------------------------------------------------------
(* Postfix token sequences handed to evaluateRPN: the sequence is drawn at   *)
(* construction and evaluated once.                                          *)

MaxRpnLen == 4

RpnTokens == {Chars("2"), Chars("3"), unaryMinus, <<"-">>, <<"/">>}

RpnInputs == UNION {[1..n -> RpnTokens] : n \in 0..MaxRpnLen}

InitRpn ==
    /\ memory = I(0)
    /\ lastResult = I(0)
    /\ history = <<>>
    /\ variables = EmptyTable
    /\ ans = I(0)
    /\ angleMode = "rad"
    /\ mu = Unlocked
    /\ goroutines = [g \in Goroutines |-> Idle]
    /\ config = NewConfig
    /\ \E rpn \in RpnInputs : out = Call("input", rpn, TRUE, I(0), "")

\* Parser.evaluateRPN(rpn)
EvaluateRpn ==
    LET Returned(r) == out' = Call("rpn", out.arg, r.ok, r.val, r.err)
    IN  /\ out.op = "input"
        /\ Returned(evaluateRPN(out.arg))
        /\ UNCHANGED <<memory, lastResult, history, variables, ans, angleMode, config, mu, goroutines>>

NextRpn == EvaluateRpn

SpecRpn == InitRpn /\ [][NextRpn]_vars

IsBinary(token) == Len(token) = 1 /\ token[1] \in DOMAIN ops

\* the values stacked after the first n tokens when no token lacked an
\* operand: one per number, one less per binary operator
Stacked(rpn, n) ==
    Cardinality({i \in 1..n : ~IsBinary(rpn[i]) /\ rpn[i] # unaryMinus})
        - Cardinality({i \in 1..n : IsBinary(rpn[i])})

\* token i lacks an operand
Lacks(rpn, i) ==
    \/ rpn[i] = unaryMinus /\ Stacked(rpn, i - 1) < 1
    \/ IsBinary(rpn[i]) /\ Stacked(rpn, i - 1) < 2

InsufficientOperands ==
    {"insufficient operands for unary minus", "insufficient operands for operator"}

ArithmeticErrors == {"division by zero", "modulus by zero"}

\* C19: evaluateRPN fails with "insufficient operands" when a unary minus
\* finds no value or a binary operator fewer than two; otherwise it fails
\* with "invalid expression" unless exactly one value remains, and returns
\* that value; the right operand is popped first and the unary minus
\* negates the top
C19_RpnStackMachine ==
    out.op = "rpn" =>
        LET rpn == out.arg
            lacking == {i \in 1..Len(rpn) : Lacks(rpn, i)}
        IN  /\ lacking # {} =>
                   /\ ~out.ok
                   /\ out.err \in InsufficientOperands \cup ArithmeticErrors
                   /\ out.err \in InsufficientOperands =>
                          (out.err = "insufficient operands for unary minus"
                              <=> rpn[CHOOSE i \in lacking : \A j \in lacking : i <= j]
                                      = unaryMinus)
            /\ lacking = {} /\ Stacked(rpn, Len(rpn)) # 1 =>
                   ~out.ok /\ out.err \in {"invalid expression"} \cup ArithmeticErrors
            /\ lacking = {} /\ Stacked(rpn, Len(rpn)) = 1 =>
                   out.ok \/ out.err \in ArithmeticErrors
            /\ rpn = <<Chars("3"), Chars("2"), <<"-">>>> => out.val = I(1)
            /\ rpn = <<Chars("2"), Chars("3"), <<"/">>>> => out.val = Q(2, 3)
            /\ rpn = <<Chars("2"), Chars("3"), unaryMinus, <<"-">>>> => out.val = I(5)
            /\ rpn = <<Chars("2"), unaryMinus, Chars("3"), <<"-">>>> => out.val = I(-5)

\* C19 witness: a binary operator has found a single stacked value
C19_OperatorLacksOperand ==
    /\ out.op = "rpn"
    /\ out.arg = <<Chars("2"), <<"-">>>>
    /\ out.err = "insufficient operands for operator"

====
